---- MODULE Spec2Model ----
(***************************************************************************)
(* pipeline-components: compilation of a React element tree into an Azure  *)
(* DevOps pipeline or a GitHub Actions workflow (YAML).                    *)
(*                                                                         *)
(* JavaScript values are tagged records (field t).  A JavaScript object is *)
(* an ordered list of <<key, value>> entries with distinct keys (insertion *)
(* order, as Object.entries and js-yaml see it).  A thrown exception is    *)
(* the value Throw(e); every operator that models code which can throw     *)
(* passes a Throw on unchanged, as an uncaught exception unwinds the       *)
(* stack.  Operators that model code which calls user-defined components   *)
(* return [v |-> value or Throw, log |-> the component calls made, in      *)
(* order].                                                                 *)
(***************************************************************************)
EXTENDS Integers, Sequences, FiniteSets, TLC

VARIABLES
    pipeline,   \* the React node handed to renderPipeline / getFileExtension
    pc,         \* "start": nothing called yet; "rendered": renderPipeline returned or threw
    chosen,     \* the renderer renderPipeline got from getRenderer (None before the call)
    compiled,   \* what renderer.compilePipeline returned (None when it was not called)
    output,     \* what renderPipeline returned: a Text, Null, or Throw(e)
    calls,      \* the user-defined component calls made by renderPipeline, in order
    extension,  \* what getFileExtension returned (None before it is called)
    yamlIn,     \* the object handed to convertToYamlFormat
    yamlOut,    \* convertToYamlFormat(yamlIn) (None before it is called)
    yamlTwice,  \* convertToYamlFormat(yamlOut) (None before it is called)
    resolved,   \* the local variable resolved of collectSteps' callback (None outside it)
    heap,       \* the objects of the JavaScript heap, each at its address (its index)
    documents,  \* what the calls of renderer.compilePipeline returned, in order
    matchedFiles,   \* the command line tool: the files its globs matched, in order
    at,             \* the file its loop is at (1..Len(matchedFiles) + 1)
    outputFiles,    \* the files it wrote, <<input path, extension, text>>, in order
    stderr,         \* what it wrote on standard error, in order
    exitCode,       \* the exit code of the process (None while it runs)
    childList,      \* the children handed to flattenChildren
    flattened,      \* flattenChildren(childList) (None before the call)
    flattenedAgain, \* flattenChildren(flattened) (None before the call)
    argument,       \* an element handed to resolveElement (None before the call)
    returned        \* what resolveElement returned for it (None before the call)

heapVars == <<heap, documents>>
cliVars == <<matchedFiles, at, outputFiles, stderr, exitCode>>
expandVars == <<childList, flattened, flattenedAgain, argument, returned>>

vars == <<pipeline, pc, chosen, compiled, output, calls, extension, yamlIn, yamlOut, yamlTwice,
          resolved, heapVars, cliVars, expandVars>>

-----------------------------------------------------------------------------
(* JavaScript values *)

None == [t |-> "none"]              \* model only: "not computed yet"
Undefined == [t |-> "undefined"]
Null == [t |-> "null"]
Bool(b) == [t |-> "boolean", b |-> b]
Num(n) == [t |-> "number", n |-> n]
Str(s) == [t |-> "string", s |-> s]
Arr(items) == [t |-> "array", items |-> items]
Obj(entries) == [t |-> "object", entries |-> entries]
Element(type, props) == [t |-> "element", type |-> type, props |-> props]
Throw(e) == [t |-> "throw", e |-> e]
Ret(v, log) == [v |-> v, log |-> log]

IsThrow(x) == x.t = "throw"

\* JavaScript truthiness (!x is ~Truthy(x)).
Truthy(x) ==
    CASE x.t \in {"undefined", "null"} -> FALSE
      [] x.t = "boolean" -> x.b
      [] x.t = "number" -> x.n # 0
      [] x.t = "string" -> x.s # ""
      [] OTHER -> TRUE

\* Property access on an object given as its entries.
Keys(entries) == [i \in 1..Len(entries) |-> entries[i][1]]
HasKey(entries, k) == \E i \in 1..Len(entries) : entries[i][1] = k
Get(entries, k) ==
    IF HasKey(entries, k)
    THEN entries[CHOOSE i \in 1..Len(entries) : entries[i][1] = k][2]
    ELSE Undefined

MaxNumber == 9      \* the numbers of the model
Numbers == 0..MaxNumber

\* A key that is the decimal form of an integer is an array index.
IsArrayIndex(k) == \E n \in Numbers : ToString(n) = k
IndexBelow(k, l) ==
    /\ IsArrayIndex(k) /\ IsArrayIndex(l)
    /\ (CHOOSE n \in Numbers : ToString(n) = k) < (CHOOSE n \in Numbers : ToString(n) = l)

\* obj[k] = v: an existing key keeps its place; a new key that is an array
\* index goes among the indices, which come first in ascending order; any
\* other new key goes last.
Put(entries, k, v) ==
    IF HasKey(entries, k)
    THEN [i \in 1..Len(entries) |-> IF entries[i][1] = k THEN <<k, v>> ELSE entries[i]]
    ELSE IF IsArrayIndex(k)
    THEN SelectSeq(entries, LAMBDA e : IndexBelow(e[1], k))
         \o << <<k, v>> >>
         \o SelectSeq(entries, LAMBDA e : ~IndexBelow(e[1], k))
    ELSE Append(entries, <<k, v>>)

\* const { k, ...rest } = obj
RECURSIVE Rest(_, _)
Rest(entries, k) ==
    IF entries = <<>> THEN <<>>
    ELSE IF Head(entries)[1] = k THEN Rest(Tail(entries), k)
    ELSE <<Head(entries)>> \o Rest(Tail(entries), k)

-----------------------------------------------------------------------------
(* React elements and components *)

Fragment == "React.Fragment"
AzPipeline == "azure-devops/Pipeline"
AzStage == "azure-devops/Stage"
AzJob == "azure-devops/Job"
AzStep == "azure-devops/Step"
GhWorkflow == "github-actions/Workflow"
GhJob == "github-actions/Job"
GhStep == "github-actions/Step"

\* User-defined components the model's trees use.
Wrap == "Wrap"              \* function ({children}) => <>{children}</>
WrapClass == "WrapClass"    \* class: render() { return <>{this.props.children}</> }
Alias == "Alias"            \* function (props) => <Wrap {...props} />
Make == "Make"              \* function ({as, ...props}) => createElement(as, props)
Nothing == "Nothing"        \* function () => null
Boom == "Boom"              \* function () { throw new Error('boom') }

\* User-defined components whose expansion never reaches a primitive.
Loop == "Loop"              \* function (props) => <Loop {...props} />
Ping == "Ping"              \* function (props) => <Pong {...props} />
Pong == "Pong"              \* function (props) => <Ping {...props} />

UserComponents == {Wrap, WrapClass, Alias, Make, Nothing, Boom, Loop, Ping, Pong}
AzPrimitives == {AzPipeline, AzStage, AzJob, AzStep}
GhPrimitives == {GhWorkflow, GhJob, GhStep}

\* typeof type === 'function': every component; React.Fragment is a symbol.
IsFunction(type) == type \in UserComponents \cup AzPrimitives \cup GhPrimitives
\* type.prototype && type.prototype.isReactComponent
IsReactComponent(type) == type = WrapClass

IsValidElement(x) == x.t = "element"

\* The argument of JSX's children: none, one child as it is, several as an array.
Kids(cs) ==
    IF Len(cs) = 0 THEN <<>>
    ELSE IF Len(cs) = 1 THEN << <<"children", cs[1]>> >>
    ELSE << <<"children", Arr(cs)>> >>

\* <>{children}</>: createElement(Fragment, null, children)
FragmentOf(children) == Element(Fragment, << <<"children", children>> >>)

\* The body of a component function (or of a class's render) applied to props.
ComponentBody(type, props) ==
    CASE type \in {AzPipeline, AzStage, AzJob, GhWorkflow, GhJob, Wrap, WrapClass} ->
            FragmentOf(Get(props, "children"))
      [] type \in {AzStep, GhStep, Nothing} -> Null
      [] type = Alias -> Element(Wrap, props)
      [] type = Make -> Element(Get(props, "as").s, Rest(props, "as"))
      [] type = Boom -> Throw("boom")
      [] type = Loop -> Element(Loop, props)
      [] type = Ping -> Element(Pong, props)
      [] type = Pong -> Element(Ping, props)

Platforms == {"azure-devops", "github-actions"}

isPrimitiveComponent(P, type) ==
    IF P = "azure-devops"
    THEN type = AzPipeline \/ type = AzStage \/ type = AzJob \/ type = AzStep
    ELSE type = GhWorkflow \/ type = GhJob \/ type = GhStep

StepOf(P) == IF P = "azure-devops" THEN AzStep ELSE GhStep
JobOf(P) == IF P = "azure-devops" THEN AzJob ELSE GhJob

\* React.Children.forEach: the arguments its callback is called with, in order.
\* Nested arrays are walked in place; undefined, null and booleans reach the
\* callback as null; a null or undefined children calls nothing.
RECURSIVE mapIntoArray(_)
mapIntoArray(child) ==
    CASE child.t \in {"undefined", "null", "boolean"} -> <<Null>>
      [] child.t = "array" ->
            IF child.items = <<>> THEN <<>>
            ELSE mapIntoArray(Head(child.items)) \o mapIntoArray(Arr(Tail(child.items)))
      [] OTHER -> <<child>>

ChildrenForEach(children) ==
    IF children.t \in {"undefined", "null"} THEN <<>> ELSE mapIntoArray(children)

RECURSIVE flattenChildren(_)
RECURSIVE flattenEach(_)
flattenEach(cs) ==
    IF cs = <<>> THEN <<>>
    ELSE LET child == Head(cs) IN
         (IF IsValidElement(child)
          THEN IF child.type = Fragment
               THEN flattenChildren(Get(child.props, "children"))
               ELSE <<child>>
          ELSE <<>>) \o flattenEach(Tail(cs))

flattenChildren(children) == flattenEach(ChildrenForEach(children))

\* resolveElement without its test of isPrimitiveComponent.
resolveElementOfAny(element, P) ==
    IF IsFunction(element.type)
    THEN Ret(ComponentBody(element.type, element.props), <<element>>)
    ELSE Ret(element, <<>>)

resolveElement(element, P) ==
    IF IsFunction(element.type) /\ ~isPrimitiveComponent(P, element.type)
    THEN IF IsReactComponent(element.type)
         THEN Ret(ComponentBody(element.type, element.props), <<element>>)
         ELSE Ret(ComponentBody(element.type, element.props), <<element>>)
    ELSE Ret(element, <<>>)

-----------------------------------------------------------------------------
(* Leaf collection (the same function in both renderers) *)

\* const x = value; body: the rest of the function, given the value.
Bind(value, Body(_)) == Body(value)

\* The result r of a call made after the component calls of log.
After(log, r) == Ret(r.v, log \o r.log)

\* The while loop of collectSteps: resolve again while the result is still a
\* custom component.  r is the Ret of the resolutions made so far.
RECURSIVE resolveAgain(_, _)
resolveAgain(r, P) ==
    IF IsThrow(r.v) THEN r
    ELSE IF Truthy(r.v) /\ IsValidElement(r.v) /\ IsFunction(r.v.type)
            /\ ~isPrimitiveComponent(P, r.v.type)
    THEN resolveAgain(After(r.log, resolveElement(r.v, P)), P)
    ELSE r

RECURSIVE collectSteps(_, _)
RECURSIVE collectEach(_, _, _, _)
\* The forEach callback over the children cs; steps and log accumulate.
collectEach(cs, P, steps, log) ==
    IF cs = <<>> THEN Ret(Arr(steps), log)
    ELSE IF ~IsValidElement(Head(cs)) THEN collectEach(Tail(cs), P, steps, log)
    ELSE Bind(resolveAgain(After(log, resolveElement(Head(cs), P)), P), LAMBDA r :
            IF IsThrow(r.v) THEN r
            ELSE IF ~Truthy(r.v) THEN collectEach(Tail(cs), P, steps, r.log)
            ELSE IF ~IsValidElement(r.v)
            THEN Ret(Throw("TypeError"), r.log)      \* resolved.props is undefined
            ELSE IF r.v.type = StepOf(P)
            THEN collectEach(Tail(cs), P, Append(steps, r.v), r.log)
            ELSE Bind(After(r.log, collectSteps(Get(r.v.props, "children"), P)),
                      LAMBDA sub :
                        IF IsThrow(sub.v) THEN sub
                        ELSE collectEach(Tail(cs), P, steps \o sub.v.items, sub.log)))

\* collectSteps without the recursive call: only the Steps that are children.
RECURSIVE collectDirect(_, _, _, _)
collectDirect(cs, P, steps, log) ==
    IF cs = <<>> THEN Ret(Arr(steps), log)
    ELSE IF ~IsValidElement(Head(cs)) THEN collectDirect(Tail(cs), P, steps, log)
    ELSE Bind(resolveAgain(After(log, resolveElement(Head(cs), P)), P), LAMBDA r :
            IF IsThrow(r.v) THEN r
            ELSE collectDirect(Tail(cs), P,
                     IF Truthy(r.v) /\ IsValidElement(r.v) /\ r.v.type = StepOf(P)
                     THEN Append(steps, r.v) ELSE steps,
                     r.log))

collectStepsShallow(node, P) == collectDirect(ChildrenForEach(node), P, <<>>, <<>>)

\* collectSteps were it to go into fragments only, and not into the other
\* elements that are not a Step.
RECURSIVE collectThroughFragments(_, _, _, _)
collectThroughFragments(cs, P, steps, log) ==
    IF cs = <<>> THEN Ret(Arr(steps), log)
    ELSE IF ~IsValidElement(Head(cs)) THEN collectThroughFragments(Tail(cs), P, steps, log)
    ELSE Bind(resolveAgain(After(log, resolveElement(Head(cs), P)), P), LAMBDA r :
            IF IsThrow(r.v) THEN r
            ELSE IF ~Truthy(r.v) \/ ~IsValidElement(r.v)
            THEN collectThroughFragments(Tail(cs), P, steps, r.log)
            ELSE IF r.v.type = StepOf(P)
            THEN collectThroughFragments(Tail(cs), P, Append(steps, r.v), r.log)
            ELSE IF r.v.type # Fragment
            THEN collectThroughFragments(Tail(cs), P, steps, r.log)
            ELSE Bind(After(r.log,
                            collectThroughFragments(
                                ChildrenForEach(Get(r.v.props, "children")), P, <<>>, <<>>)),
                      LAMBDA sub :
                        IF IsThrow(sub.v) THEN sub
                        ELSE collectThroughFragments(Tail(cs), P, steps \o sub.v.items,
                                                     sub.log)))

collectStepsThroughFragments(node, P) ==
    collectThroughFragments(ChildrenForEach(node), P, <<>>, <<>>)

collectSteps(node, P) == collectEach(ChildrenForEach(node), P, <<>>, <<>>)

\* array.filter(Boolean) on compiled nodes: null entries go.
RECURSIVE filterBoolean(_)
filterBoolean(items) ==
    IF items = <<>> THEN <<>>
    ELSE (IF Truthy(Head(items)) THEN <<Head(items)>> ELSE <<>>)
         \o filterBoolean(Tail(items))

\* childElements.filter(child => { const resolved = resolveElement(child, ...);
\*                                 return resolved && resolved.type === type; })
RECURSIVE filterByType(_, _, _, _, _)
filterByType(cs, P, type, kept, log) ==
    IF cs = <<>> THEN Ret(Arr(kept), log)
    ELSE Bind(After(log, resolveElement(Head(cs), P)), LAMBDA r :
            IF IsThrow(r.v) THEN r
            ELSE filterByType(Tail(cs), P, type,
                     IF Truthy(r.v) /\ IsValidElement(r.v) /\ r.v.type = type
                     THEN Append(kept, Head(cs)) ELSE kept,
                     r.log))

-----------------------------------------------------------------------------
(* Azure DevOps renderer *)

\* _compileStep testing !enabled alone: a Step without the flag is skipped too.
AzureDevOps_compileStepSkipsUnflagged(element) ==
    Bind(resolveElement(element, "azure-devops"), LAMBDA r :
        IF IsThrow(r.v) THEN r
        ELSE IF ~Truthy(r.v) THEN Ret(Null, r.log)
        ELSE IF ~Truthy(Get(r.v.props, "enabled")) THEN Ret(Null, r.log)
        ELSE Ret(Obj(Rest(r.v.props, "enabled")), r.log))

\* _compileStep returning the props without taking enabled out.
AzureDevOps_compileStepKeepingEnabled(element) ==
    Bind(resolveElement(element, "azure-devops"), LAMBDA r :
        IF IsThrow(r.v) THEN r
        ELSE IF ~Truthy(r.v) THEN Ret(Null, r.log)
        ELSE IF Get(r.v.props, "enabled").t # "undefined" /\ ~Truthy(Get(r.v.props, "enabled"))
        THEN Ret(Null, r.log)
        ELSE Ret(Obj(r.v.props), r.log))

AzureDevOps_compileStep(element) ==
    Bind(resolveElement(element, "azure-devops"), LAMBDA r :
        IF IsThrow(r.v) THEN r
        ELSE IF ~Truthy(r.v) THEN Ret(Null, r.log)
        ELSE LET enabled == Get(r.v.props, "enabled")
                 step == Rest(r.v.props, "enabled")
             IN IF enabled.t # "undefined" /\ ~Truthy(enabled)
                THEN Ret(Null, r.log)
                ELSE Ret(Obj(step), r.log))

\* elements.map(child => this._compileStep(child)!), before .filter(Boolean)
RECURSIVE AzureDevOps_mapCompileStep(_, _, _)
AzureDevOps_mapCompileStep(elements, out, log) ==
    IF elements = <<>> THEN Ret(Arr(out), log)
    ELSE Bind(After(log, AzureDevOps_compileStep(Head(elements))), LAMBDA r :
            IF IsThrow(r.v) THEN r
            ELSE AzureDevOps_mapCompileStep(Tail(elements), Append(out, r.v), r.log))

\* The object _compileJob returns, given the props and the compiled steps.
AzureDevOps_jobNode(props, steps) ==
    Obj(<< <<"job", Get(props, "job")>>,
           <<"displayName", Get(props, "displayName")>>,
           <<"condition", Get(props, "condition")>>,
           <<"continueOnError", Get(props, "continueOnError")>>,
           <<"dependsOn", Get(props, "dependsOn")>>,
           <<"pool", Get(props, "pool")>>,
           <<"workspace", Get(props, "workspace")>>,
           <<"variables", Get(props, "variables")>>,
           <<"steps", Arr(filterBoolean(steps))>> >>)

AzureDevOps_compileJob(element) ==
    Bind(resolveElement(element, "azure-devops"), LAMBDA r :
        IF IsThrow(r.v) THEN r
        ELSE IF ~Truthy(r.v) THEN Ret(Null, r.log)
        ELSE Bind(After(r.log, collectSteps(Get(r.v.props, "children"), "azure-devops")),
                  LAMBDA collected :
                    IF IsThrow(collected.v) THEN collected
                    ELSE Bind(AzureDevOps_mapCompileStep(collected.v.items, <<>>,
                                                         collected.log),
                              LAMBDA steps :
                                IF IsThrow(steps.v) THEN steps
                                ELSE Ret(AzureDevOps_jobNode(r.v.props, steps.v.items),
                                         steps.log))))

\* The forEach of _compileStage over the flattened children cs.
RECURSIVE AzureDevOps_stageJobs(_, _, _)
AzureDevOps_stageJobs(cs, jobs, log) ==
    IF cs = <<>> THEN Ret(Arr(jobs), log)
    ELSE Bind(After(log, resolveElement(Head(cs), "azure-devops")), LAMBDA r :
            IF IsThrow(r.v) THEN r
            ELSE IF Truthy(r.v) /\ IsValidElement(r.v) /\ r.v.type = AzJob
            THEN Bind(After(r.log, AzureDevOps_compileJob(r.v)), LAMBDA job :
                    IF IsThrow(job.v) THEN job
                    ELSE AzureDevOps_stageJobs(Tail(cs),
                             IF Truthy(job.v) THEN Append(jobs, job.v) ELSE jobs,
                             job.log))
            ELSE AzureDevOps_stageJobs(Tail(cs), jobs, r.log))

\* _compileStage were it to copy the pool as given.
AzureDevOps_stageNodePoolAsGiven(props, jobs) ==
    Obj(<< <<"stage", Get(props, "stage")>>,
           <<"displayName", Get(props, "displayName")>>,
           <<"pool", Get(props, "pool")>>,
           <<"dependsOn", Get(props, "dependsOn")>>,
           <<"condition", Get(props, "condition")>>,
           <<"variables", Get(props, "variables")>>,
           <<"jobs", jobs>> >>)

\* The object _compileStage returns, given the props and the compiled jobs.
AzureDevOps_stageNode(props, jobs) ==
    LET pool == Get(props, "pool")
    IN Obj(<< <<"stage", Get(props, "stage")>>,
              <<"displayName", Get(props, "displayName")>>,
              <<"pool", IF pool.t = "string" THEN Obj(<< <<"name", pool>> >>) ELSE pool>>,
              <<"dependsOn", Get(props, "dependsOn")>>,
              <<"condition", Get(props, "condition")>>,
              <<"variables", Get(props, "variables")>>,
              <<"jobs", jobs>> >>)

AzureDevOps_compileStage(element) ==
    Bind(resolveElement(element, "azure-devops"), LAMBDA r :
        IF IsThrow(r.v) THEN r
        ELSE IF ~Truthy(r.v) THEN Ret(Null, r.log)
        ELSE Bind(AzureDevOps_stageJobs(flattenChildren(Get(r.v.props, "children")),
                                        <<>>, r.log),
                  LAMBDA jobs :
                    IF IsThrow(jobs.v) THEN jobs
                    ELSE Ret(AzureDevOps_stageNode(r.v.props, jobs.v), jobs.log)))

\* kept.map(child => this._compileX(resolveElement(child, ...)!)), X by kind
AzureDevOps_compileChild(kind, element) ==
    CASE kind = "stages" -> AzureDevOps_compileStage(element)
      [] kind = "jobs" -> AzureDevOps_compileJob(element)
      [] kind = "steps" -> AzureDevOps_compileStep(element)

RECURSIVE AzureDevOps_mapCompile(_, _, _, _)
AzureDevOps_mapCompile(kind, kept, out, log) ==
    IF kept = <<>> THEN Ret(Arr(out), log)
    ELSE Bind(After(log, resolveElement(Head(kept), "azure-devops")), LAMBDA r :
            IF IsThrow(r.v) THEN r
            ELSE Bind(After(r.log, AzureDevOps_compileChild(kind, r.v)), LAMBDA c :
                    IF IsThrow(c.v) THEN c
                    ELSE AzureDevOps_mapCompile(kind, Tail(kept), Append(out, c.v),
                                                c.log)))

\* if (stages.length > 0) ... else if (jobs.length > 0) ... else if (steps.length > 0)
\* with the first two tests in the other order.
AzureDevOps_bucketJobsFirst(stages, jobs, steps) ==
    IF Len(jobs) > 0 THEN "jobs"
    ELSE IF Len(stages) > 0 THEN "stages"
    ELSE IF Len(steps) > 0 THEN "steps"
    ELSE "none"

\* if (stages.length > 0) ... else if (jobs.length > 0) ... else if (steps.length > 0)
AzureDevOps_bucket(stages, jobs, steps) ==
    IF Len(stages) > 0 THEN "stages"
    ELSE IF Len(jobs) > 0 THEN "jobs"
    ELSE IF Len(steps) > 0 THEN "steps"
    ELSE "none"

\* The chosen branch were it to return null when no child is of any kind.
AzureDevOps_compileBucketOrNull(head, kind, kept, log) ==
    IF kind = "none" THEN Ret(Null, log)
    ELSE Bind(AzureDevOps_mapCompile(kind, kept, <<>>, log), LAMBDA members :
            IF IsThrow(members.v) THEN members
            ELSE Ret(Obj(Append(head, <<kind, Arr(filterBoolean(members.v.items))>>)),
                     members.log))

\* The body of the chosen branch: the children of the bucket kind are compiled
\* and the result is the head with that one list (stages: [] when none is).
AzureDevOps_compileBucket(head, kind, kept, log) ==
    IF kind = "none" THEN Ret(Obj(Append(head, <<"stages", Arr(<<>>)>>)), log)
    ELSE Bind(AzureDevOps_mapCompile(kind, kept, <<>>, log), LAMBDA members :
            IF IsThrow(members.v) THEN members
            ELSE Ret(Obj(Append(head, <<kind, Arr(filterBoolean(members.v.items))>>)),
                     members.log))

\* The three filters of _compilePipeline over the flattened children, and the
\* branch their lengths choose.
AzureDevOps_compileChildren(head, childElements, log) ==
    Bind(filterByType(childElements, "azure-devops", AzStage, <<>>, log), LAMBDA stages :
        IF IsThrow(stages.v) THEN stages
        ELSE Bind(filterByType(childElements, "azure-devops", AzJob, <<>>, stages.log),
                  LAMBDA jobs :
                    IF IsThrow(jobs.v) THEN jobs
                    ELSE Bind(filterByType(childElements, "azure-devops", AzStep, <<>>,
                                           jobs.log),
                              LAMBDA steps :
                                IF IsThrow(steps.v) THEN steps
                                ELSE Bind(AzureDevOps_bucket(stages.v.items, jobs.v.items,
                                                             steps.v.items),
                                          LAMBDA kind :
                                            AzureDevOps_compileBucket(head, kind,
                                                CASE kind = "stages" -> stages.v.items
                                                  [] kind = "jobs" -> jobs.v.items
                                                  [] kind = "steps" -> steps.v.items
                                                  [] OTHER -> <<>>,
                                                steps.log)))))

AzureDevOps_compilePipeline(element) ==
    Bind(resolveElement(element, "azure-devops"), LAMBDA r :
        IF IsThrow(r.v) THEN r
        ELSE IF ~Truthy(r.v) THEN Ret(Null, r.log)
        ELSE AzureDevOps_compileChildren(
                 << <<"trigger", Get(r.v.props, "trigger")>>,
                    <<"pool", Get(r.v.props, "pool")>>,
                    <<"variables", Get(r.v.props, "variables")>> >>,
                 flattenChildren(Get(r.v.props, "children")),
                 r.log))

AzureDevOps_canRender(element) == IsValidElement(element) /\ element.type = AzPipeline

AzureDevOps_getFileExtension == Str("yaml")

\* compilePipeline without its test of props.children.
AzureDevOpsCompilePipelineAnyChildren(element) ==
    IF ~IsValidElement(element) \/ element.type # AzPipeline THEN Ret(Null, <<>>)
    ELSE AzureDevOps_compilePipeline(element)

AzureDevOpsCompilePipeline(element) ==
    IF ~IsValidElement(element) \/ element.type # AzPipeline THEN Ret(Null, <<>>)
    ELSE IF ~Truthy(Get(element.props, "children")) THEN Ret(Null, <<>>)
    ELSE AzureDevOps_compilePipeline(element)

-----------------------------------------------------------------------------
(* GitHub Actions renderer *)

\* The two messages of _compileStep's validation.
CannotHaveBoth == "Step cannot have both \"uses\" and \"run\" properties"
MustHaveEither == "Step must have either \"uses\" or \"run\" property"

\* _compileStep with its first check left out: only a Step with neither fails.
GitHubActions_compileStepNoBothCheck(element) ==
    Bind(resolveElement(element, "github-actions"), LAMBDA r :
        IF IsThrow(r.v) THEN r
        ELSE IF ~Truthy(r.v) THEN Ret(Null, r.log)
        ELSE IF ~Truthy(Get(r.v.props, "uses")) /\ ~Truthy(Get(r.v.props, "run"))
        THEN Ret(Throw(MustHaveEither), r.log)
        ELSE Ret(Obj(r.v.props), r.log))

GitHubActions_compileStep(element) ==
    Bind(resolveElement(element, "github-actions"), LAMBDA r :
        IF IsThrow(r.v) THEN r
        ELSE IF ~Truthy(r.v) THEN Ret(Null, r.log)
        ELSE LET step == r.v.props
                 uses == HasKey(step, "uses") /\ Truthy(Get(step, "uses"))
                 run == HasKey(step, "run") /\ Truthy(Get(step, "run"))
             IN IF uses /\ run
                THEN Ret(Throw(CannotHaveBoth), r.log)
                ELSE IF ~uses /\ ~run
                THEN Ret(Throw(MustHaveEither), r.log)
                ELSE Ret(Obj(step), r.log))

\* elements.map(child => this._compileStep(child)!), before .filter(Boolean)
RECURSIVE GitHubActions_mapCompileStep(_, _, _)
GitHubActions_mapCompileStep(elements, out, log) ==
    IF elements = <<>> THEN Ret(Arr(out), log)
    ELSE Bind(After(log, GitHubActions_compileStep(Head(elements))), LAMBDA r :
            IF IsThrow(r.v) THEN r
            ELSE GitHubActions_mapCompileStep(Tail(elements), Append(out, r.v), r.log))

\* _compileJob were it to make a list of a single needed job.
GitHubActions_jobNodeNeedsAsList(props, steps) ==
    LET needs == Get(props, "needs")
    IN Obj(<< <<"name", Get(props, "name")>>,
              <<"runsOn", Get(props, "runsOn")>>,
              <<"needs", IF needs.t = "string" THEN Arr(<<needs>>) ELSE needs>>,
              <<"if", Get(props, "if")>>,
              <<"permissions", Get(props, "permissions")>>,
              <<"env", Get(props, "env")>>,
              <<"defaults", Get(props, "defaults")>>,
              <<"strategy", Get(props, "strategy")>>,
              <<"continueOnError", Get(props, "continueOnError")>>,
              <<"timeoutMinutes", Get(props, "timeoutMinutes")>>,
              <<"container", Get(props, "container")>>,
              <<"services", Get(props, "services")>>,
              <<"steps", Arr(filterBoolean(steps))>> >>)

\* The object _compileJob returns, given the props and the compiled steps.
GitHubActions_jobNode(props, steps) ==
    Obj(<< <<"name", Get(props, "name")>>,
           <<"runsOn", Get(props, "runsOn")>>,
           <<"needs", Get(props, "needs")>>,
           <<"if", Get(props, "if")>>,
           <<"permissions", Get(props, "permissions")>>,
           <<"env", Get(props, "env")>>,
           <<"defaults", Get(props, "defaults")>>,
           <<"strategy", Get(props, "strategy")>>,
           <<"continueOnError", Get(props, "continueOnError")>>,
           <<"timeoutMinutes", Get(props, "timeoutMinutes")>>,
           <<"container", Get(props, "container")>>,
           <<"services", Get(props, "services")>>,
           <<"steps", Arr(filterBoolean(steps))>> >>)

GitHubActions_compileJob(element) ==
    Bind(resolveElement(element, "github-actions"), LAMBDA r :
        IF IsThrow(r.v) THEN r
        ELSE IF ~Truthy(r.v) THEN Ret(Null, r.log)
        ELSE Bind(After(r.log, collectSteps(Get(r.v.props, "children"), "github-actions")),
                  LAMBDA collected :
                    IF IsThrow(collected.v) THEN collected
                    ELSE Bind(GitHubActions_mapCompileStep(collected.v.items, <<>>,
                                                           collected.log),
                              LAMBDA steps :
                                IF IsThrow(steps.v) THEN steps
                                ELSE Ret(GitHubActions_jobNode(r.v.props, steps.v.items),
                                         steps.log))))

\* A property used as an object key: the key is its string.
PropertyKey(v) == IF v.t = "number" THEN ToString(v.n) ELSE v.s

\* jobId were it the id as it is given.
GitHubActions_jobIdAsGiven(props) ==
    IF HasKey(props, "id") THEN PropertyKey(Get(props, "id")) ELSE "undefined"

\* const jobId = jobProps.id || 'job'
GitHubActions_jobId(props) ==
    IF Truthy(Get(props, "id")) THEN PropertyKey(Get(props, "id")) ELSE "job"

\* jobs.forEach(child => { ... compiledJobs[jobId] = job; })
RECURSIVE GitHubActions_compileJobs(_, _, _)
GitHubActions_compileJobs(jobs, compiledJobs, log) ==
    IF jobs = <<>> THEN Ret(Obj(compiledJobs), log)
    ELSE Bind(After(log, resolveElement(Head(jobs), "github-actions")), LAMBDA r :
            IF IsThrow(r.v) THEN r
            ELSE IF ~Truthy(r.v) THEN GitHubActions_compileJobs(Tail(jobs), compiledJobs, r.log)
            ELSE Bind(After(r.log, GitHubActions_compileJob(r.v)), LAMBDA job :
                    IF IsThrow(job.v) THEN job
                    ELSE GitHubActions_compileJobs(Tail(jobs),
                             IF Truthy(job.v)
                             THEN Put(compiledJobs, GitHubActions_jobId(r.v.props), job.v)
                             ELSE compiledJobs,
                             job.log)))

\* The object _compileWorkflow returns, given the props and the compiled jobs.
GitHubActions_workflowNode(props, compiledJobs) ==
    Obj(<< <<"name", Get(props, "name")>>,
           <<"runName", Get(props, "runName")>>,
           <<"on", Get(props, "on")>>,
           <<"permissions", Get(props, "permissions")>>,
           <<"env", Get(props, "env")>>,
           <<"defaults", Get(props, "defaults")>>,
           <<"concurrency", Get(props, "concurrency")>>,
           <<"jobs", compiledJobs>> >>)

\* _compileWorkflow without the return of null for a Workflow without Jobs.
GitHubActions_compileWorkflowEmptyJobs(element) ==
    Bind(resolveElement(element, "github-actions"), LAMBDA r :
        IF IsThrow(r.v) THEN r
        ELSE IF ~Truthy(r.v) THEN Ret(Null, r.log)
        ELSE Bind(filterByType(flattenChildren(Get(r.v.props, "children")),
                               "github-actions", GhJob, <<>>, r.log),
                  LAMBDA jobs :
                    IF IsThrow(jobs.v) THEN jobs
                    ELSE Bind(GitHubActions_compileJobs(jobs.v.items, <<>>, jobs.log),
                              LAMBDA compiledJobs :
                                IF IsThrow(compiledJobs.v) THEN compiledJobs
                                ELSE Ret(GitHubActions_workflowNode(r.v.props,
                                                                    compiledJobs.v),
                                         compiledJobs.log))))

GitHubActions_compileWorkflow(element) ==
    Bind(resolveElement(element, "github-actions"), LAMBDA r :
        IF IsThrow(r.v) THEN r
        ELSE IF ~Truthy(r.v) THEN Ret(Null, r.log)
        ELSE Bind(filterByType(flattenChildren(Get(r.v.props, "children")),
                               "github-actions", GhJob, <<>>, r.log),
                  LAMBDA jobs :
                    IF IsThrow(jobs.v) THEN jobs
                    ELSE IF Len(jobs.v.items) = 0 THEN Ret(Null, jobs.log)
                    ELSE Bind(GitHubActions_compileJobs(jobs.v.items, <<>>, jobs.log),
                              LAMBDA compiledJobs :
                                IF IsThrow(compiledJobs.v) THEN compiledJobs
                                ELSE Ret(GitHubActions_workflowNode(r.v.props,
                                                                    compiledJobs.v),
                                         compiledJobs.log))))

GitHubActions_canRender(element) == IsValidElement(element) /\ element.type = GhWorkflow

GitHubActions_getFileExtension == Str("yml")

GitHubActionsCompilePipeline(element) ==
    IF ~IsValidElement(element) \/ element.type # GhWorkflow THEN Ret(Null, <<>>)
    ELSE IF ~Truthy(Get(element.props, "children")) THEN Ret(Null, <<>>)
    ELSE GitHubActions_compileWorkflow(element)

\* The if / else-if chain of convertToYamlFormat.
yamlKeyOf(key) ==
    CASE key = "runName" -> "run-name"
      [] key = "runsOn" -> "runs-on"
      [] key = "continueOnError" -> "continue-on-error"
      [] key = "timeoutMinutes" -> "timeout-minutes"
      [] key = "workingDirectory" -> "working-directory"
      [] key = "failFast" -> "fail-fast"
      [] key = "maxParallel" -> "max-parallel"
      [] key = "cancelInProgress" -> "cancel-in-progress"
      [] key = "branchesIgnore" -> "branches-ignore"
      [] key = "tagsIgnore" -> "tags-ignore"
      [] key = "pathsIgnore" -> "paths-ignore"
      [] key = "pullRequest" -> "pull_request"
      [] key = "workflowDispatch" -> "workflow_dispatch"
      [] key = "workflowCall" -> "workflow_call"
      [] OTHER -> key

\* The loop of convertToYamlFormat without the recursive call on the value.
RECURSIVE convertEntriesTopLevelOnly(_, _)
convertEntriesTopLevelOnly(entries, result) ==
    IF entries = <<>> THEN result
    ELSE convertEntriesTopLevelOnly(Tail(entries),
            IF Head(entries)[2].t # "undefined"
            THEN Put(result, yamlKeyOf(Head(entries)[1]), Head(entries)[2])
            ELSE result)

RECURSIVE convertToYamlFormat(_)
RECURSIVE convertItems(_)
RECURSIVE convertEntries(_, _)
\* obj.map(item => this.convertToYamlFormat(item))
convertItems(items) ==
    IF items = <<>> THEN <<>>
    ELSE <<convertToYamlFormat(Head(items))>> \o convertItems(Tail(items))

\* The loop of convertToYamlFormat were it to keep the entry a key already has.
RECURSIVE convertEntriesKeepingFirst(_, _)
convertEntriesKeepingFirst(entries, result) ==
    IF entries = <<>> THEN result
    ELSE convertEntriesKeepingFirst(Tail(entries),
            IF Head(entries)[2].t # "undefined" /\ ~HasKey(result, yamlKeyOf(Head(entries)[1]))
            THEN Put(result, yamlKeyOf(Head(entries)[1]), convertToYamlFormat(Head(entries)[2]))
            ELSE result)

\* for (const [key, value] of Object.entries(obj)) { ... result[yamlKey] = ... }
convertEntries(entries, result) ==
    IF entries = <<>> THEN result
    ELSE LET key == Head(entries)[1]
             value == Head(entries)[2]
             yamlKey == yamlKeyOf(key)
         IN convertEntries(Tail(entries),
                IF value.t # "undefined"
                THEN Put(result, yamlKey, convertToYamlFormat(value))
                ELSE result)

convertToYamlFormat(obj) ==
    CASE obj.t = "array" -> Arr(convertItems(obj.items))
      [] obj.t = "object" -> Obj(convertEntries(obj.entries, <<>>))
      [] OTHER -> obj

-----------------------------------------------------------------------------
(* js-yaml: dump(value, { noRefs: true, lineWidth: -1 }) and load(text).    *)
(* The text is kept as the tree of nodes it spells: mappings, sequences and *)
(* scalars, a scalar being its characters and the style they are written in *)
(* (plain, 'single-quoted', or a |- literal block).                         *)

\* The strings of the model that hold a line break.
MultiLine == {"npm ci\nnpm test"}

Scalar(style, text) == [t |-> "scalar", style |-> style, text |-> text]
Mapping(entries) == [t |-> "mapping", entries |-> entries]
Sequence(items) == [t |-> "sequence", items |-> items]
Text(yaml) == [t |-> "text", yaml |-> yaml]

\* What a plain (unquoted) scalar resolves to on load (YAML 1.2 core schema).
resolvePlain(text) ==
    IF text \in {"null", "~", ""} THEN Null
    ELSE IF text \in {"true", "false"} THEN Bool(text = "true")
    ELSE IF \E n \in Numbers : ToString(n) = text
    THEN Num(CHOOSE n \in Numbers : ToString(n) = text)
    ELSE Str(text)

\* chooseScalarStyle without the test of what the plain scalar would load as.
chooseScalarStyleNeverQuoted(string) ==
    IF string \in MultiLine THEN "literal" ELSE "plain"

\* dump writes a string plain only if it would load as that same string.
chooseScalarStyle(string) ==
    IF string = "" THEN "single"
    ELSE IF string \in MultiLine THEN "literal"
    ELSE IF resolvePlain(string) # Str(string) THEN "single"
    ELSE "plain"

RECURSIVE yamlDump(_)
RECURSIVE dumpItems(_)
RECURSIVE dumpEntries(_)
\* a sequence writes undefined as null
dumpItems(items) ==
    IF items = <<>> THEN <<>>
    ELSE <<yamlDump(IF Head(items).t = "undefined" THEN Null ELSE Head(items))>>
         \o dumpItems(Tail(items))

\* A mapping that writes a key whose value is undefined, with null for it.
RECURSIVE dumpEntriesUndefinedAsNull(_)
dumpEntriesUndefinedAsNull(entries) ==
    IF entries = <<>> THEN <<>>
    ELSE << <<Head(entries)[1],
              yamlDump(IF Head(entries)[2].t = "undefined" THEN Null ELSE Head(entries)[2])>> >>
         \o dumpEntriesUndefinedAsNull(Tail(entries))

\* a mapping leaves out the keys whose value is undefined
dumpEntries(entries) ==
    IF entries = <<>> THEN <<>>
    ELSE (IF Head(entries)[2].t = "undefined" THEN <<>>
          ELSE << <<Head(entries)[1], yamlDump(Head(entries)[2])>> >>)
         \o dumpEntries(Tail(entries))

yamlDump(value) ==
    CASE value.t = "object" -> Mapping(dumpEntries(value.entries))
      [] value.t = "array" -> Sequence(dumpItems(value.items))
      [] value.t = "null" -> Scalar("plain", "null")
      [] value.t = "boolean" -> Scalar("plain", IF value.b THEN "true" ELSE "false")
      [] value.t = "number" -> Scalar("plain", ToString(value.n))
      [] value.t = "string" -> Scalar(chooseScalarStyle(value.s), value.s)

RECURSIVE yamlLoad(_)
RECURSIVE loadItems(_)
RECURSIVE loadEntries(_, _)
loadItems(items) ==
    IF items = <<>> THEN <<>>
    ELSE <<yamlLoad(Head(items))>> \o loadItems(Tail(items))

\* _result[keyNode] = valueNode, pair after pair
loadEntries(entries, result) ==
    IF entries = <<>> THEN result
    ELSE loadEntries(Tail(entries), Put(result, Head(entries)[1], yamlLoad(Head(entries)[2])))

yamlLoad(node) ==
    CASE node.t = "mapping" -> Obj(loadEntries(node.entries, <<>>))
      [] node.t = "sequence" -> Arr(loadItems(node.items))
      [] node.t = "scalar" ->
            IF node.style = "plain" THEN resolvePlain(node.text) ELSE Str(node.text)

AzureDevOpsRender(doc) == Text(yamlDump(doc))

GitHubActionsRender(workflow) ==
    LET yamlWorkflow == convertToYamlFormat(workflow)
    IN Text(yamlDump(yamlWorkflow))

-----------------------------------------------------------------------------
(* The renderer registry *)

renderers == <<"azure-devops", "github-actions">>

canRender(P, node) ==
    IF P = "azure-devops" THEN AzureDevOps_canRender(node) ELSE GitHubActions_canRender(node)

compilePipeline(P, node) ==
    IF P = "azure-devops" THEN AzureDevOpsCompilePipeline(node)
    ELSE GitHubActionsCompilePipeline(node)

render(P, doc) ==
    IF P = "azure-devops" THEN AzureDevOpsRender(doc) ELSE GitHubActionsRender(doc)

rendererFileExtension(P) ==
    IF P = "azure-devops" THEN AzureDevOps_getFileExtension
    ELSE GitHubActions_getFileExtension

\* for (const renderer of renderers) if (renderer.canRender(pipeline)) return renderer;
RECURSIVE firstRenderer(_, _)
firstRenderer(rs, node) ==
    IF rs = <<>> THEN Null
    ELSE IF canRender(Head(rs), node) THEN Str(Head(rs))
    ELSE firstRenderer(Tail(rs), node)

getRenderer(node) == firstRenderer(renderers, node)

\* renderPipeline with a try / catch around the compilation that returns null.
renderPipelineCatching(node) ==
    Bind(getRenderer(node), LAMBDA renderer :
        IF ~Truthy(renderer)
        THEN [renderer |-> renderer, compiled |-> None, output |-> Null, calls |-> <<>>]
        ELSE Bind(compilePipeline(renderer.s, node), LAMBDA compiledElements :
                [renderer |-> renderer,
                 compiled |-> compiledElements.v,
                 output |-> IF IsThrow(compiledElements.v) \/ ~Truthy(compiledElements.v)
                            THEN Null
                            ELSE render(renderer.s, compiledElements.v),
                 calls |-> compiledElements.log]))

\* renderPipeline: [renderer, compiled, output, calls]
renderPipeline(node) ==
    Bind(getRenderer(node), LAMBDA renderer :
        IF ~Truthy(renderer)
        THEN [renderer |-> renderer, compiled |-> None, output |-> Null, calls |-> <<>>]
        ELSE Bind(compilePipeline(renderer.s, node), LAMBDA compiledElements :
                [renderer |-> renderer,
                 compiled |-> compiledElements.v,
                 output |-> IF IsThrow(compiledElements.v) THEN compiledElements.v
                            ELSE IF ~Truthy(compiledElements.v) THEN Null
                            ELSE render(renderer.s, compiledElements.v),
                 calls |-> compiledElements.log]))

\* getFileExtension asking the first renderer of the list, whatever the node.
getFileExtensionOfFirst(node) == rendererFileExtension(renderers[1])

getFileExtension(node) ==
    Bind(getRenderer(node), LAMBDA renderer :
        IF ~Truthy(renderer) THEN Null ELSE rendererFileExtension(renderer.s))

-----------------------------------------------------------------------------
(* The trees the model compiles *)

MaxNodes == 4       \* nodes below a Job in the nesting shapes
MaxSteps == 3       \* child slots of a Job (or Root) in the step sequences
MaxTop == 2         \* child slots of a Root in the top-level sequences

RECURSIVE treesOf(_, _, _)
RECURSIVE forestsOf(_, _, _)
\* The trees of exactly k nodes: a leaf of L, or a wrapper of W around a forest.
treesOf(L, W, k) ==
    IF k = 1 THEN L
    ELSE {Element(w, Kids(f)) : w \in W, f \in forestsOf(L, W, k - 1)}

\* The sequences of trees with exactly n nodes in all.
forestsOf(L, W, n) ==
    IF n = 0 THEN {<<>>}
    ELSE UNION {{<<tr>> \o f : tr \in treesOf(L, W, k), f \in forestsOf(L, W, n - k)}
                : k \in 1..n}

\* The sequences over S of length at most n.
RECURSIVE seqsUpTo(_, _)
seqsUpTo(S, n) ==
    IF n = 0 THEN {<<>>}
    ELSE {<<>>} \cup {<<x>> \o q : x \in S, q \in seqsUpTo(S, n - 1)}

RootOf(P, props, children) ==
    Element(IF P = "azure-devops" THEN AzPipeline ELSE GhWorkflow,
            (IF props # <<>> THEN props
             ELSE IF P = "azure-devops" THEN << <<"trigger", Str("none")>> >>
             ELSE << <<"name", Str("CI")>>, <<"on", Obj(<< <<"push", Obj(<<>>)>> >>)>> >>)
            \o Kids(children))

JobWith(P, props, children) ==
    Element(JobOf(P),
            (IF P = "azure-devops" THEN props
             ELSE props \o << <<"runsOn", Str("ubuntu-latest")>> >>)
            \o Kids(children))

StepWith(P, props) ==
    Element(StepOf(P),
            (IF P = "azure-devops" THEN << <<"task", Str("CmdLine@2")>> >> ELSE <<>>)
            \o props)

\* A user-defined component that returns one primitive element.
MakeOf(type, props, children) ==
    Element(Make, << <<"as", Str(type)>> >> \o props \o Kids(children))

RunProp == <<"run", Str("npm ci")>>
UsesProp == <<"uses", Str("actions/checkout@v4")>>

\* Steps that compile: the leaves of the nesting shapes.
GoodSteps(P) ==
    IF P = "azure-devops"
    THEN {StepWith(P, <<>>), MakeOf(AzStep, << <<"task", Str("Bash@3")>> >>, <<>>)}
    ELSE {StepWith(P, <<RunProp>>), MakeOf(GhStep, <<UsesProp>>, <<>>)}

\* Steps of every flavour, and slots that are not steps.
AnySlots(P) ==
    IF P = "azure-devops"
    THEN {StepWith(P, <<>>),
          StepWith(P, << <<"enabled", Bool(TRUE)>> >>),
          StepWith(P, << <<"enabled", Bool(FALSE)>> >>),
          StepWith(P, << <<"enabled", Null>> >>),
          StepWith(P, << <<"enabled", Num(0)>> >>),
          StepWith(P, << <<"enabled", Undefined>> >>),
          Element(Boom, <<>>)}
    ELSE {StepWith(P, <<RunProp>>),
          StepWith(P, <<UsesProp>>),
          StepWith(P, <<UsesProp, RunProp>>),
          StepWith(P, <<>>),
          StepWith(P, << <<"uses", Null>> >>),
          StepWith(P, <<UsesProp, <<"run", Str("")>> >>),
          Element(Boom, <<>>)}

Wrappers == {Fragment, WrapClass, Alias}

\* One Job whose children nest good steps (and empty fragments) under
\* fragments and components.
ShapeTrees(P) ==
    {RootOf(P, <<>>, <<JobWith(P, <<>>, f)>>) :
        f \in UNION {forestsOf(GoodSteps(P) \cup {Element(Fragment, <<>>)}, Wrappers, n)
                        : n \in 0..MaxNodes}}

\* One Job (or, on Azure DevOps, the Root itself) over a sequence of slots,
\* as they are or inside a component.
StepTrees(P) ==
    LET seqs == seqsUpTo(AnySlots(P), MaxSteps)
    IN {RootOf(P, <<>>, <<JobWith(P, <<>>, q)>>) : q \in seqs}
       \cup {RootOf(P, <<>>, <<JobWith(P, <<>>, <<Element(Wrap, Kids(q))>>)>>) : q \in seqs}
       \cup (IF P = "azure-devops" THEN {RootOf(P, <<>>, q) : q \in seqs} ELSE {})

\* Children of a Root: units of every kind, components and empty slots.
TopSlots(P) ==
    LET step == IF P = "azure-devops" THEN StepWith(P, <<>>) ELSE StepWith(P, <<RunProp>>)
        job == JobWith(P, <<>>, <<step>>)
    IN IF P = "azure-devops"
       THEN {Element(AzStage, Kids(<<job>>)),
             Element(AzStage, <<>>),
             job,
             step,
             StepWith(P, << <<"enabled", Bool(FALSE)>> >>),
             MakeOf(AzStage, <<>>, <<job>>),
             MakeOf(AzJob, <<>>, <<step>>),
             FragmentOf(Arr(<<job, Element(AzStage, <<>>)>>)),
             Element(Alias, Kids(<<job>>)),
             Element(Wrap, Kids(<<job>>)),
             Element(AzStage, Kids(<<MakeOf(AzJob, <<>>, <<step>>),
                                     Element(Wrap, Kids(<<job>>))>>)),
             Element(Boom, <<>>),
             JobWith(P, <<>>, <<step, Element(Boom, <<>>)>>),
             Bool(FALSE)}
       ELSE {JobWith(P, << <<"id", Str("build")>> >>, <<step>>),
             JobWith(P, << <<"id", Str("test")>> >>, <<StepWith(P, <<UsesProp>>)>>),
             JobWith(P, <<>>, <<step>>),
             JobWith(P, << <<"id", Str("bad")>> >>, <<StepWith(P, <<UsesProp, RunProp>>)>>),
             JobWith(P, << <<"id", Str("none")>> >>, <<StepWith(P, <<>>)>>),
             step,
             MakeOf(GhJob, << <<"id", Str("made")>> >>, <<step>>),
             FragmentOf(JobWith(P, << <<"id", Str("inner")>> >>, <<step>>)),
             Element(Alias, Kids(<<job>>)),
             Element(Wrap, Kids(<<JobWith(P, << <<"id", Str("wrapped")>> >>, <<step>>)>>)),
             Element(Boom, <<>>),
             JobWith(P, << <<"id", Str("boom")>> >>, <<step, Element(Boom, <<>>)>>),
             Null}

TopTrees(P) == {RootOf(P, <<>>, q) : q \in seqsUpTo(TopSlots(P), MaxTop)}

\* A property that is there or not.
Opt(present, entry) == IF present THEN <<entry>> ELSE <<>>

\* Roots without children, with any of their other properties.
EmptyRoots(P) ==
    IF P = "azure-devops"
    THEN {Element(AzPipeline,
                  Opt(a, <<"trigger", Str("none")>>)
                  \o Opt(b, <<"pool", Obj(<< <<"vmImage", Str("ubuntu-latest")>> >>)>>)
                  \o Opt(c, <<"variables", Obj(<< <<"CI", Bool(TRUE)>> >>)>>))
            : a, b, c \in BOOLEAN}
    ELSE {Element(GhWorkflow,
                  Opt(a, <<"name", Str("CI")>>)
                  \o Opt(b, <<"runName", Str("run")>>)
                  \o Opt(c, <<"on", Obj(<< <<"push", Obj(<<>>)>> >>)>>))
            : a, b, c \in BOOLEAN}

\* The values a property is given in the property bags below; None stands
\* for a property that is not written at all.
Probes ==
    {None, Undefined, Num(0), Num(7), Bool(TRUE), Bool(FALSE),
     Str("7"), Str("true"), Str(""), Str("null"), Str("npm ci"), Str("npm ci\nnpm test")}

Prop(k, v) == IF v = None THEN <<>> ELSE << <<k, v>> >>

\* One tree per pair of values, with a property of every level (Root, Stage,
\* Job, Step, and a map inside a Step) given one of the two.
BagTrees(P) ==
    IF P = "azure-devops"
    THEN {Element(AzPipeline, Prop("trigger", v) \o Kids(<<
            Element(AzStage, << <<"stage", Str("build")>> >> \o Prop("displayName", w)
                             \o Prop("condition", v) \o Kids(<<
              Element(AzJob, << <<"job", Str("compile")>> >> \o Prop("displayName", v)
                             \o Prop("continueOnError", w) \o Kids(<<
                Element(AzStep, << <<"task", Str("CmdLine@2")>> >> \o Prop("displayName", w)
                                \o << <<"inputs", Obj(Prop("script", v)
                                                     \o Prop("retries", w))>> >>)>>))>>))>>))
            : v, w \in Probes}
    ELSE {Element(GhWorkflow, << <<"name", Str("CI")>> >> \o Prop("runName", v)
                              \o << <<"on", Obj(<< <<"push", Obj(<<>>)>> >>)>> >> \o Kids(<<
            Element(GhJob, << <<"id", Str("build")>>, <<"runsOn", Str("ubuntu-latest")>> >>
                           \o Prop("timeoutMinutes", v)
                           \o Prop("continueOnError", w) \o Kids(<<
              Element(GhStep, <<UsesProp>> \o Prop("name", w)
                              \o << <<"with", Obj(Prop("node", v) \o Prop("cache", w))>> >>),
              Element(GhStep, << <<"run", Str("npm ci\nnpm test")>> >>
                              \o Prop("shell", v) \o Prop("workingDirectory", w))>>))>>))
            : v, w \in Probes}

\* The values a pool and a dependency are given; None stands for a property
\* that is not written at all.
Pools == {None, Str("Default"), Obj(<< <<"vmImage", Str("ubuntu-latest")>> >>)}
Dependencies == {None, Str("build"), Str("missing"), Arr(<<Str("test"), Str("build")>>)}

\* Trees whose Root, Stages and Jobs carry the properties their compilers
\* read (a pool and a dependency among them, given every value above) and
\* properties that their compilers do not read.
FieldTrees(P) ==
    IF P = "azure-devops"
    THEN LET step == StepWith(P, <<>>)
             first == Element(AzJob, << <<"job", Str("build")>> >> \o Kids(<<step>>))
             second(v, w, d) ==
                Element(AzJob, << <<"job", Str("test")>>, <<"displayName", Str("Test")>> >>
                               \o Prop("pool", v) \o Prop("dependsOn", d)
                               \o << <<"workspace", Obj(<< <<"clean", Str("all")>> >>)>>,
                                     <<"timeoutInMinutes", Num(5)>> >>
                               \o Kids(<<step>>))
             root(v, cs) ==
                Element(AzPipeline, << <<"trigger", Str("none")>> >> \o Prop("pool", v)
                                    \o << <<"variables", Obj(<< <<"CI", Bool(TRUE)>> >>)>>,
                                          <<"name", Str("nightly")>> >>
                                    \o Kids(cs))
         IN {root(w, <<first, second(v, w, d)>>) : v, w \in Pools, d \in Dependencies}
            \cup {root(v, <<Element(AzStage, << <<"stage", Str("build")>> >>
                                              \o Prop("pool", v) \o Kids(<<first>>)),
                            Element(AzStage, << <<"stage", Str("test")>> >>
                                              \o Prop("pool", w) \o Prop("dependsOn", d)
                                              \o << <<"condition", Str("succeeded()")>>,
                                                    <<"lockBehavior", Str("sequential")>> >>
                                              \o Kids(<<first, second(v, w, d)>>))>>)
                  : v, w \in Pools, d \in Dependencies}
            \cup {root(v, cs) :
                    v \in Pools,
                    cs \in {<<Element(Nothing, <<>>)>>,
                            <<Element(Wrap, Kids(<<first>>)), Element(Nothing, <<>>)>>,
                            <<Element(GhJob, << <<"id", Str("build")>> >> \o Kids(<<step>>))>>}}
    ELSE {Element(GhWorkflow,
            << <<"name", Str("CI")>>, <<"on", Obj(<< <<"push", Obj(<<>>)>> >>)>> >>
            \o Prop("env", e) \o << <<"id", Str("ci")>> >> \o Kids(<<
              Element(GhJob, << <<"id", Str("build")>>, <<"runsOn", Str("ubuntu-latest")>> >>
                             \o Kids(<<StepWith(P, <<RunProp>>)>>)),
              Element(GhJob, << <<"id", Str("test")>>, <<"runsOn", r>> >>
                             \o Prop("needs", d) \o Prop("env", e)
                             \o << <<"strategy",
                                     Obj(<< <<"matrix", Obj(<< <<"node", Num(7)>> >>)>> >>)>>,
                                   <<"outputs", Obj(<< <<"sha", Str("abc")>> >>)>> >>
                             \o Kids(<<StepWith(P, <<UsesProp>>)>>))>>))
            : d \in Dependencies,
              e \in {None, Obj(<< <<"NODE_ENV", Str("ci")>> >>)},
              r \in {Str("ubuntu-latest"), Arr(<<Str("self-hosted"), Str("linux")>>)}}

MaxFlagged == 3     \* Steps of the Job in the trees below

\* A GitHub Actions Job over Steps with and without the enabled flag.
FlagTrees ==
    LET P == "github-actions"
    IN {RootOf(P, <<>>, <<JobWith(P, <<>>, q)>>) :
          q \in seqsUpTo({StepWith(P, <<RunProp>>),
                          StepWith(P, <<UsesProp, <<"enabled", Bool(TRUE)>> >>),
                          StepWith(P, <<RunProp, <<"enabled", Bool(FALSE)>> >>),
                          MakeOf(GhStep, <<UsesProp, <<"enabled", Bool(FALSE)>> >>, <<>>)},
                         MaxFlagged)}

\* What JSX leaves in a child slot whose expression gives nothing.
EmptySlots == {Bool(FALSE), Null, Undefined, Arr(<<>>)}

\* Roots with empty slots alone, and with empty slots before, between and
\* after the children of the Root, of a Stage, of a Job and of a Fragment.
SlotTrees(P) ==
    LET step == IF P = "azure-devops" THEN StepWith(P, <<>>) ELSE StepWith(P, <<RunProp>>)
        job(cs) == JobWith(P, << <<"id", Str("build")>> >>, cs)
    IN {RootOf(P, <<>>, q) :
          q \in UNION {{<<e>>,
                        <<e, f>>,
                        <<e, job(<<f, step>>)>>,
                        <<job(<<step, f>>), e>>,
                        <<job(<<FragmentOf(Arr(<<e, step, f>>))>>)>>,
                        <<job(<<e>>)>>}
                       \cup (IF P = "azure-devops"
                             THEN {<<Element(AzStage, Kids(<<e, job(<<step>>), f>>))>>,
                                   <<e, Element(AzStage, Kids(<<f>>))>>}
                             ELSE {})
                       : e, f \in EmptySlots}}

\* Ids a Job is given: plain ones, ones spelled like a renamed property, and
\* ones that are the decimal form of an integer.
JobIds == {"build", "deploy_prod", "runsOn", "pullRequest", "failFast", "7", "3"}

\* Workflows of one Job, and of two Jobs of which the second needs the first.
IdTrees ==
    LET P == "github-actions"
        job(id, props) ==
            JobWith(P, << <<"id", Str(id)>> >> \o props, <<StepWith(P, <<RunProp>>)>>)
    IN {RootOf(P, <<>>, <<job(i, <<>>)>>) : i \in JobIds}
       \cup {RootOf(P, <<>>, <<job(ids[1], <<>>), job(ids[2], << <<"needs", Str(ids[1])>> >>)>>)
               : ids \in {pair \in JobIds \X JobIds : pair[1] # pair[2]}}

\* Workflows of two Jobs whose ids are missing, empty, or given, the same or
\* not.
SameIdTrees ==
    LET P == "github-actions"
        job(id, step) == JobWith(P, Prop("id", id), <<StepWith(P, <<step>>)>>)
    IN {RootOf(P, <<>>, <<job(i, RunProp), job(j, UsesProp)>>)
            : i, j \in {None, Str(""), Str("build"), Str("job")}}

\* One Job with a Step, then an element that is not a Step and has
\* properties and Steps of its own (a Job, a Stage or a Root of either
\* platform, a host element, or one of them inside another), then a Step.
NestedUnitTrees(P) ==
    LET step == IF P = "azure-devops" THEN StepWith(P, <<>>) ELSE StepWith(P, <<RunProp>>)
        types == {AzPipeline, AzStage, AzJob, GhWorkflow, GhJob, "div"}
        inner(type, cs) ==
            Element(type, << <<"condition", Str("inner")>>, <<"if", Str("inner")>>,
                             <<"id", Str("inner")>> >> \o Kids(cs))
    IN {RootOf(P, <<>>, <<JobWith(P, <<>>, <<step, inner(type, cs), step>>)>>)
            : type \in types,
              cs \in {<<>>, <<step, FragmentOf(step)>>}
                     \cup {<<inner(t, <<step>>), step>> : t \in types}}

\* Nodes that are not a Root: other primitives, text, nothing, and a Root
\* inside a fragment, an array or a user-defined component.
NonRoots(P) ==
    LET step == IF P = "azure-devops" THEN StepWith(P, <<>>) ELSE StepWith(P, <<RunProp>>)
        job == JobWith(P, <<>>, <<step>>)
        root == RootOf(P, <<>>, <<job>>)
    IN {Null, Undefined, Bool(TRUE), Str("pipeline"), Num(1),
        step, job, Element(AzStage, Kids(<<job>>)),
        FragmentOf(root), Arr(<<root>>),
        Element(Wrap, Kids(<<root>>)),
        Element(WrapClass, Kids(<<root>>)),
        MakeOf(root.type, <<>>, <<job>>),
        Element(Nothing, <<>>),
        Element(Boom, <<>>)}

\* What names a node in the output: the property the numbering below sets.
LabelKey(type) ==
    CASE type = AzStage -> "stage"
      [] type = AzJob -> "job"
      [] type = AzStep -> "displayName"
      [] type \in {GhJob, GhStep} -> "name"
      [] OTHER -> ""

\* Number the Stages, Jobs and Steps of a tree n1, n2, ... in document order,
\* so that every unit of a tree is told from the others.
RECURSIVE labelNode(_, _)
RECURSIVE labelItems(_, _)
labelItems(items, n) ==
    IF items = <<>> THEN [v |-> <<>>, n |-> n]
    ELSE LET h == labelNode(Head(items), n)
             rest == labelItems(Tail(items), h.n)
         IN [v |-> <<h.v>> \o rest.v, n |-> rest.n]

labelNode(v, n) ==
    IF v.t = "array"
    THEN LET r == labelItems(v.items, n) IN [v |-> Arr(r.v), n |-> r.n]
    ELSE IF v.t = "element"
    THEN LET key == LabelKey(IF v.type = Make THEN Get(v.props, "as").s ELSE v.type)
             props == IF key = "" THEN v.props
                      ELSE << <<key, Str("n" \o ToString(n))>> >> \o v.props
             m == IF key = "" THEN n ELSE n + 1
         IN IF HasKey(props, "children")
            THEN LET r == labelNode(Get(props, "children"), m)
                 IN [v |-> Element(v.type, Put(props, "children", r.v)), n |-> r.n]
            ELSE [v |-> Element(v.type, props), n |-> m]
    ELSE [v |-> v, n |-> n]

Label(tree) == labelNode(tree, 1).v

\* pipeline is one of the trees above, numbered.
IsCompiledTree(node) ==
    \E P \in Platforms :
        \/ \E tr \in ShapeTrees(P) : node = Label(tr)
        \/ \E tr \in StepTrees(P) : node = Label(tr)
        \/ \E tr \in TopTrees(P) : node = Label(tr)
        \/ node \in EmptyRoots(P)
        \/ node \in BagTrees(P)
        \/ node \in FieldTrees(P)
        \/ \E tr \in FlagTrees : node = Label(tr)
        \/ \E tr \in SlotTrees(P) : node = Label(tr)
        \/ \E tr \in IdTrees : node = Label(tr)
        \/ \E tr \in SameIdTrees : node = Label(tr)
        \/ \E tr \in NestedUnitTrees(P) : node = Label(tr)
        \/ node \in NonRoots(P)

-----------------------------------------------------------------------------
(* The state machine: renderPipeline and then getFileExtension on a node,   *)
(* the two functions the package exports, in the order the command line     *)
(* calls them.                                                              *)

Init ==
    /\ IsCompiledTree(pipeline)
    /\ pc = "start"
    /\ chosen = None
    /\ compiled = None
    /\ output = None
    /\ calls = <<>>
    /\ extension = None
    /\ yamlIn = None
    /\ yamlOut = None
    /\ yamlTwice = None
    /\ resolved = None
    /\ heap = <<>>
    /\ documents = <<>>
    /\ matchedFiles = <<>>
    /\ at = 0
    /\ outputFiles = <<>>
    /\ stderr = <<>>
    /\ exitCode = None
    /\ childList = None
    /\ flattened = None
    /\ flattenedAgain = None
    /\ argument = None
    /\ returned = None

RenderPipeline ==
    /\ pc = "start"
    /\ Bind(renderPipeline(pipeline), LAMBDA r :
            /\ chosen' = r.renderer
            /\ compiled' = r.compiled
            /\ output' = r.output
            /\ calls' = r.calls)
    /\ pc' = "rendered"
    /\ UNCHANGED <<expandVars, cliVars, heapVars, pipeline, extension, yamlIn, yamlOut, yamlTwice, resolved>>

GetFileExtension ==
    /\ pc = "rendered"
    /\ extension = None
    /\ extension' = getFileExtension(pipeline)
    /\ UNCHANGED <<expandVars, cliVars, heapVars, pipeline, pc, chosen, compiled, output, calls, yamlIn, yamlOut, yamlTwice,
                   resolved>>

Next == RenderPipeline \/ GetFileExtension

Spec == Init /\ [][Next]_vars

-----------------------------------------------------------------------------
(* convertToYamlFormat on its own: the objects it is given, and the function *)
(* applied once and then again to its own result.                            *)

MaxDepth == 2       \* maps and arrays around the innermost map

\* The keys of the rename table, in camelCase and as written on the wire, and
\* keys that are in neither column.
CamelKeys ==
    {"runName", "runsOn", "continueOnError", "timeoutMinutes", "workingDirectory",
     "failFast", "maxParallel", "cancelInProgress", "branchesIgnore", "tagsIgnore",
     "pathsIgnore", "pullRequest", "workflowDispatch", "workflowCall"}
WireKeys == {"runs-on", "pull_request"}
PlainKeys == {"name", "runName2", "on"}
AnyKeys == CamelKeys \cup WireKeys \cup PlainKeys

\* Innermost maps: one entry of any key and value, or two entries.
InnerMaps ==
    {Obj(<< <<k, v>> >>) :
        k \in AnyKeys, v \in {Str("ubuntu-latest"), Num(1), Bool(TRUE), Null, Undefined}}
    \cup {Obj(<< <<k[1], Str("a")>>, <<k[2], Num(2)>> >>) :
            k \in {q \in AnyKeys \X AnyKeys : q[1] # q[2]}}
    \cup {Obj(<< <<k[1], v[1]>>, <<k[2], v[2]>> >>) :
            k \in {q \in {"runsOn", "runs-on", "on"} \X {"runsOn", "runs-on", "on"}
                        : q[1] # q[2]},
            v \in {<<Str("a"), Undefined>>, <<Undefined, Num(2)>>}}

\* A value one level further in: under a map key, or in an array.
Around(v) ==
    {Obj(<< <<"pullRequest", v>> >>),
     Obj(<< <<"name", Str("CI")>>, <<"strategy", v>> >>),
     Arr(<<v, Str("x")>>)}

RECURSIVE DocsAt(_)
DocsAt(depth) ==
    IF depth = 0 THEN InnerMaps ELSE UNION {Around(v) : v \in DocsAt(depth - 1)}

\* A compiled Workflow with one job under the given id, and the same map of
\* the author's in each of the properties that hold one.
WorkflowDocs ==
    {Obj(<< <<"name", Str("CI")>>, <<"runName", Undefined>>, <<"env", v>>,
            <<"permissions", v>>,
            <<"jobs", Obj(<< <<id,
                Obj(<< <<"runsOn", Str("ubuntu-latest")>>, <<"services", v>>,
                       <<"strategy", Obj(<< <<"failFast", Bool(TRUE)>>, <<"matrix", v>> >>)>>,
                       <<"steps", Arr(<<Obj(<< <<"uses", Str("actions/checkout@v4")>>,
                                               <<"with", v>> >>)>>)>> >>)>> >>)>> >>)
        : id \in {"build", "runsOn"}, v \in InnerMaps}

IsConvertInput(doc) ==
    \/ \E depth \in 0..MaxDepth : doc \in DocsAt(depth)
    \/ doc \in WorkflowDocs

InitConvert ==
    /\ IsConvertInput(yamlIn)
    /\ pc = "convert"
    /\ yamlOut = None
    /\ yamlTwice = None
    /\ pipeline = None
    /\ chosen = None
    /\ compiled = None
    /\ output = None
    /\ calls = <<>>
    /\ extension = None
    /\ resolved = None
    /\ heap = <<>>
    /\ documents = <<>>
    /\ matchedFiles = <<>>
    /\ at = 0
    /\ outputFiles = <<>>
    /\ stderr = <<>>
    /\ exitCode = None
    /\ childList = None
    /\ flattened = None
    /\ flattenedAgain = None
    /\ argument = None
    /\ returned = None

Convert ==
    /\ pc = "convert"
    /\ yamlOut' = convertToYamlFormat(yamlIn)
    /\ pc' = "converted"
    /\ UNCHANGED <<expandVars, cliVars, heapVars, pipeline, chosen, compiled, output, calls, extension, yamlIn, yamlTwice,
                   resolved>>

ConvertAgain ==
    /\ pc = "converted"
    /\ yamlTwice' = convertToYamlFormat(yamlOut)
    /\ pc' = "converted twice"
    /\ UNCHANGED <<expandVars, cliVars, heapVars, pipeline, chosen, compiled, output, calls, extension, yamlIn, yamlOut,
                   resolved>>

NextConvert == Convert \/ ConvertAgain

SpecConvert == InitConvert /\ [][NextConvert]_vars

-----------------------------------------------------------------------------
(* The callback of collectSteps on one child, statement by statement: the    *)
(* first resolveElement, then the while loop that resolves again as long as  *)
(* the result is a user-defined component.                                   *)

\* The children the callback is given: elements of every kind of component,
\* with and without children of their own.
ResolveInputs(P) ==
    LET step == IF P = "azure-devops" THEN StepWith(P, <<>>) ELSE StepWith(P, <<RunProp>>)
    IN {Element(type, Kids(cs)) :
            type \in {Wrap, WrapClass, Alias, Nothing, Boom, Loop, Ping, Pong,
                      Fragment, StepOf(P), JobOf(P)},
            cs \in {<<>>, <<step>>, <<step, step>>}}
       \cup {MakeOf(type, <<>>, cs) :
                type \in {StepOf(P), JobOf(P), Alias, Nothing, Loop, Ping},
                cs \in {<<>>, <<step>>}}

InitResolve ==
    /\ \E P \in Platforms : chosen = Str(P) /\ pipeline \in ResolveInputs(P)
    /\ pc = "child"
    /\ resolved = None
    /\ compiled = None
    /\ output = None
    /\ calls = <<>>
    /\ extension = None
    /\ yamlIn = None
    /\ yamlOut = None
    /\ yamlTwice = None
    /\ heap = <<>>
    /\ documents = <<>>
    /\ matchedFiles = <<>>
    /\ at = 0
    /\ outputFiles = <<>>
    /\ stderr = <<>>
    /\ exitCode = None
    /\ childList = None
    /\ flattened = None
    /\ flattenedAgain = None
    /\ argument = None
    /\ returned = None

\* let resolved = resolveElement(child, isPrimitiveComponent);
ResolveChild ==
    /\ pc = "child"
    /\ resolved' = resolveElement(pipeline, chosen.s).v
    /\ pc' = IF IsThrow(resolved') THEN "thrown" ELSE "while"
    /\ UNCHANGED <<expandVars, cliVars, heapVars, pipeline, chosen, compiled, output, calls, extension, yamlIn, yamlOut,
                   yamlTwice>>

\* The condition of the while loop.
StillCustom(r, P) ==
    Truthy(r) /\ IsValidElement(r) /\ IsFunction(r.type) /\ ~isPrimitiveComponent(P, r.type)

\* while (...) with its condition true: into the body.
WhileTrue ==
    /\ pc = "while"
    /\ StillCustom(resolved, chosen.s)
    /\ pc' = "body"
    /\ UNCHANGED <<expandVars, cliVars, heapVars, pipeline, chosen, compiled, output, calls, extension, yamlIn, yamlOut,
                   yamlTwice, resolved>>

\* resolved = resolveElement(resolved, isPrimitiveComponent); and back to the test.
WhileBody ==
    /\ pc = "body"
    /\ resolved' = resolveElement(resolved, chosen.s).v
    /\ pc' = IF IsThrow(resolved') THEN "thrown" ELSE "while"
    /\ UNCHANGED <<expandVars, cliVars, heapVars, pipeline, chosen, compiled, output, calls, extension, yamlIn, yamlOut,
                   yamlTwice>>

\* while (...) with its condition false: the loop is left.
WhileFalse ==
    /\ pc = "while"
    /\ ~StillCustom(resolved, chosen.s)
    /\ pc' = "resolved"
    /\ UNCHANGED <<expandVars, cliVars, heapVars, pipeline, chosen, compiled, output, calls, extension, yamlIn, yamlOut,
                   yamlTwice, resolved>>

NextResolve == ResolveChild \/ WhileTrue \/ WhileBody \/ WhileFalse

\* The function runs on until it returns or throws: a step that can be taken is taken.
SpecResolve == InitResolve /\ [][NextResolve]_vars /\ WF_vars(NextResolve)

-----------------------------------------------------------------------------
(* Objects with identity: the same compilers, on a heap.  A props bag, an   *)
(* object or array that a property holds, and every object and array that  *)
(* a compiler builds is an object at an address; a property holds a scalar, *)
(* an element, or the address of an object.  The trees here are made of     *)
(* primitives, so that no component is called.                              *)

Ref(a) == [t |-> "ref", a |-> a]
HeapObject(kind, entries, frozen) == [kind |-> kind, entries |-> entries, frozen |-> frozen]

\* {...} and [...]: a new object, at the next address.
Alloc(h, kind, entries) ==
    [h |-> Append(h, HeapObject(kind, entries, FALSE)), v |-> Ref(Len(h) + 1)]

\* An array's entries are its items under their indices.
ArrayEntries(items) == [i \in 1..Len(items) |-> <<ToString(i - 1), items[i]>>]

\* element.props
PropsAt(h, element) == h[element.props.a].entries

\* The addresses of the objects that can be reached from a value.
RECURSIVE Reach(_, _)
Reach(h, v) ==
    CASE v.t = "ref" ->
            {v.a} \cup UNION {Reach(h, h[v.a].entries[i][2]) : i \in 1..Len(h[v.a].entries)}
      [] v.t = "element" -> Reach(h, v.props)
      [] v.t = "array" -> UNION {Reach(h, v.items[i]) : i \in 1..Len(v.items)}
      [] OTHER -> {}

\* The value at an address, as yaml.dump and convertToYamlFormat read it.
RECURSIVE ValueAt(_, _)
ValueAt(h, v) ==
    IF v.t # "ref" THEN v
    ELSE IF h[v.a].kind = "array"
    THEN Arr([i \in 1..Len(h[v.a].entries) |-> ValueAt(h, h[v.a].entries[i][2])])
    ELSE Obj([i \in 1..Len(h[v.a].entries) |->
                <<h[v.a].entries[i][1], ValueAt(h, h[v.a].entries[i][2])>>])

\* _compileStep were it to remove enabled from the props themselves.
AzureDevOps_compileStepAtDeleting(h, element) ==
    LET enabled == Get(PropsAt(h, element), "enabled")
        deleted == [h EXCEPT ![element.props.a].entries = Rest(@, "enabled")]
    IN IF enabled.t # "undefined" /\ ~Truthy(enabled) THEN [h |-> deleted, v |-> Null]
       ELSE [h |-> deleted, v |-> element.props]

\* const { enabled, ...step } = el.props: step is a new object
AzureDevOps_compileStepAt(h, element) ==
    LET enabled == Get(PropsAt(h, element), "enabled")
    IN IF enabled.t # "undefined" /\ ~Truthy(enabled) THEN [h |-> h, v |-> Null]
       ELSE Alloc(h, "object", Rest(PropsAt(h, element), "enabled"))

\* const step = el.props ... return step: the props object itself
GitHubActions_compileStepAt(h, element) ==
    LET step == PropsAt(h, element)
        uses == HasKey(step, "uses") /\ Truthy(Get(step, "uses"))
        run == HasKey(step, "run") /\ Truthy(Get(step, "run"))
    IN IF uses /\ run THEN [h |-> h, v |-> Throw(CannotHaveBoth)]
       ELSE IF ~uses /\ ~run THEN [h |-> h, v |-> Throw(MustHaveEither)]
       ELSE [h |-> h, v |-> element.props]

\* elements.map(child => this._compileStep(child)!)
RECURSIVE compileStepsAt(_, _, _, _)
compileStepsAt(h, elements, P, out) ==
    IF elements = <<>> THEN [h |-> h, v |-> Arr(out)]
    ELSE Bind(IF P = "azure-devops" THEN AzureDevOps_compileStepAt(h, Head(elements))
              ELSE GitHubActions_compileStepAt(h, Head(elements)),
              LAMBDA r : IF IsThrow(r.v) THEN r
                         ELSE compileStepsAt(r.h, Tail(elements), P, Append(out, r.v)))

\* _compileJob: the steps are a new array, the job a new object whose other
\* properties are those of the props, objects by their address.
compileJobAt(h, element, P) ==
    LET props == PropsAt(h, element)
    IN Bind(compileStepsAt(h, collectSteps(Get(props, "children"), P).v.items, P, <<>>),
            LAMBDA steps :
        IF IsThrow(steps.v) THEN steps
        ELSE Bind(Alloc(steps.h, "array", ArrayEntries(filterBoolean(steps.v.items))),
                  LAMBDA list :
                    Alloc(list.h, "object",
                          Put((IF P = "azure-devops" THEN AzureDevOps_jobNode(props, <<>>)
                               ELSE GitHubActions_jobNode(props, <<>>)).entries,
                              "steps", list.v))))

\* The Jobs among the elements, compiled one after the other.
RECURSIVE compileJobsAt(_, _, _, _)
compileJobsAt(h, elements, P, out) ==
    IF elements = <<>> THEN [h |-> h, v |-> Arr(out)]
    ELSE IF Head(elements).type # JobOf(P) THEN compileJobsAt(h, Tail(elements), P, out)
    ELSE Bind(compileJobAt(h, Head(elements), P), LAMBDA job :
            IF IsThrow(job.v) THEN job
            ELSE compileJobsAt(job.h, Tail(elements), P, Append(out, <<Head(elements), job.v>>)))

Seconds(pairs) == [i \in 1..Len(pairs) |-> pairs[i][2]]

\* _compileStage: the jobs are a new array, the stage a new object; a pool
\* given as a string becomes a new object { name: pool }.
AzureDevOps_compileStageAt(h, element) ==
    LET props == PropsAt(h, element)
    IN Bind(compileJobsAt(h, flattenChildren(Get(props, "children")), "azure-devops", <<>>),
            LAMBDA jobs :
        IF IsThrow(jobs.v) THEN jobs
        ELSE Bind(Alloc(jobs.h, "array", ArrayEntries(Seconds(jobs.v.items))), LAMBDA list :
                Bind(IF Get(props, "pool").t = "string"
                     THEN Alloc(list.h, "object", << <<"name", Get(props, "pool")>> >>)
                     ELSE [h |-> list.h, v |-> Get(props, "pool")],
                     LAMBDA pool :
                        Alloc(pool.h, "object",
                              Put(Put(AzureDevOps_stageNode(props, Null).entries,
                                      "pool", pool.v),
                                  "jobs", list.v)))))

RECURSIVE AzureDevOps_compileStagesAt(_, _, _)
AzureDevOps_compileStagesAt(h, elements, out) ==
    IF elements = <<>> THEN [h |-> h, v |-> Arr(out)]
    ELSE Bind(AzureDevOps_compileStageAt(h, Head(elements)), LAMBDA stage :
            IF IsThrow(stage.v) THEN stage
            ELSE AzureDevOps_compileStagesAt(stage.h, Tail(elements), Append(out, stage.v)))

\* compilePipeline and _compilePipeline: the document is a new object with
\* the props' trigger, pool and variables and a new array for its bucket.
AzureDevOps_compilePipelineAt(h, element) ==
    IF ~IsValidElement(element) \/ element.type # AzPipeline THEN [h |-> h, v |-> Null]
    ELSE IF ~Truthy(Get(PropsAt(h, element), "children")) THEN [h |-> h, v |-> Null]
    ELSE LET props == PropsAt(h, element)
             childElements == flattenChildren(Get(props, "children"))
             of(type) == SelectSeq(childElements, LAMBDA child : child.type = type)
             kind == AzureDevOps_bucket(of(AzStage), of(AzJob), of(AzStep))
             head == << <<"trigger", Get(props, "trigger")>>,
                        <<"pool", Get(props, "pool")>>,
                        <<"variables", Get(props, "variables")>> >>
         IN Bind(CASE kind = "stages" -> AzureDevOps_compileStagesAt(h, of(AzStage), <<>>)
                   [] kind = "jobs" ->
                        Bind(compileJobsAt(h, of(AzJob), "azure-devops", <<>>), LAMBDA jobs :
                            IF IsThrow(jobs.v) THEN jobs
                            ELSE [h |-> jobs.h, v |-> Arr(Seconds(jobs.v.items))])
                   [] kind = "steps" -> compileStepsAt(h, of(AzStep), "azure-devops", <<>>)
                   [] OTHER -> [h |-> h, v |-> Arr(<<>>)],
                 LAMBDA members :
                    IF IsThrow(members.v) THEN members
                    ELSE Bind(Alloc(members.h, "array",
                                    ArrayEntries(filterBoolean(members.v.items))),
                              LAMBDA list :
                                Alloc(list.h, "object",
                                      Append(head, <<IF kind = "none" THEN "stages" ELSE kind,
                                                     list.v>>))))

\* compiledJobs[jobId] = job, for the compiled Jobs in their order.
RECURSIVE GitHubActions_putJobs(_, _, _)
GitHubActions_putJobs(h, pairs, compiledJobs) ==
    IF pairs = <<>> THEN compiledJobs
    ELSE GitHubActions_putJobs(h, Tail(pairs),
             Put(compiledJobs, GitHubActions_jobId(PropsAt(h, Head(pairs)[1])),
                 Head(pairs)[2]))

\* compilePipeline and _compileWorkflow: the map of the jobs and the
\* document are new objects.
GitHubActions_compilePipelineAt(h, element) ==
    IF ~IsValidElement(element) \/ element.type # GhWorkflow THEN [h |-> h, v |-> Null]
    ELSE IF ~Truthy(Get(PropsAt(h, element), "children")) THEN [h |-> h, v |-> Null]
    ELSE LET props == PropsAt(h, element)
             jobs == SelectSeq(flattenChildren(Get(props, "children")),
                               LAMBDA child : child.type = GhJob)
         IN IF Len(jobs) = 0 THEN [h |-> h, v |-> Null]
            ELSE Bind(compileJobsAt(h, jobs, "github-actions", <<>>), LAMBDA compiledJobs :
                    IF IsThrow(compiledJobs.v) THEN compiledJobs
                    ELSE Bind(Alloc(compiledJobs.h, "object",
                                    GitHubActions_putJobs(h, compiledJobs.v.items, <<>>)),
                              LAMBDA map :
                                Alloc(map.h, "object",
                                      Put(GitHubActions_workflowNode(props, Null).entries,
                                          "jobs", map.v))))

\* getRenderer over the array renderers (the object at RenderersAt), and the
\* chosen renderer's compilePipeline.
RenderersAt == 1

compilePipelineAt(h, node) ==
    LET renderer == firstRenderer([i \in 1..Len(h[RenderersAt].entries) |->
                                      h[RenderersAt].entries[i][2].s], node)
    IN IF ~Truthy(renderer) THEN [h |-> h, v |-> Null]
       ELSE IF renderer.s = "azure-devops" THEN AzureDevOps_compilePipelineAt(h, node)
       ELSE GitHubActions_compilePipelineAt(h, node)

MaxCompilations == 2    \* calls of compilePipeline on one tree

\* The heap before any call: the array renderers, and a tree of primitives
\* with the objects and arrays its properties hold.  React freezes the props
\* of an element in its development build and not in its production build.
HeapTrees(P) ==
    LET list == HeapObject("array", ArrayEntries(<<Str("azure-devops"), Str("github-actions")>>),
                           FALSE)
        data(entries) == HeapObject("object", entries, FALSE)
        names == HeapObject("array", ArrayEntries(<<Str("build")>>), FALSE)
    IN IF P = "azure-devops"
       THEN {[heap |-> <<list,
                         data(<< <<"vmImage", Str("ubuntu-latest")>> >>),
                         data(<< <<"script", Str("npm ci")>> >>),
                         names,
                         HeapObject("object",
                                    << <<"task", Str("CmdLine@2")>>, <<"inputs", Ref(3)>> >>
                                    \o Prop("enabled", e), f),
                         HeapObject("object",
                                    << <<"job", Str("test")>>, <<"pool", Ref(2)>>,
                                       <<"dependsOn", Ref(4)>>,
                                       <<"children", Element(AzStep, Ref(5))>> >>, f),
                         HeapObject("object",
                                    << <<"stage", Str("ci")>>, <<"pool", sp>>,
                                       <<"children", Element(AzJob, Ref(6))>> >>, f),
                         HeapObject("object",
                                    << <<"trigger", Str("none")>>, <<"pool", Ref(2)>> >>
                                    \o Prop("children", c), f)>>,
               root |-> Element(AzPipeline, Ref(8))]
             : f \in BOOLEAN, e \in {None, Bool(TRUE), Bool(FALSE)},
               sp \in {Str("Default"), Ref(2)},
               c \in {None, Element(AzStage, Ref(7)), Element(AzJob, Ref(6)),
                      Element(AzStep, Ref(5))}}
       ELSE {[heap |-> <<list,
                         data(<< <<"NODE_ENV", Str("ci")>> >>),
                         data(<< <<"node-version", Num(7)>> >>),
                         names,
                         HeapObject("object", s \o << <<"with", Ref(3)>> >>, f),
                         HeapObject("object",
                                    << <<"id", Str("test")>>, <<"runsOn", Str("ubuntu-latest")>>,
                                       <<"env", Ref(2)>>, <<"needs", Ref(4)>>,
                                       <<"children", Element(GhStep, Ref(5))>> >>, f),
                         HeapObject("object",
                                    << <<"name", Str("CI")>>, <<"env", Ref(2)>> >>
                                    \o Prop("children", c), f)>>,
               root |-> Element(GhWorkflow, Ref(7))]
             : f \in BOOLEAN, s \in {<<UsesProp>>, <<RunProp>>, <<>>},
               c \in {None, Element(GhJob, Ref(6)), Element(GhStep, Ref(5)),
                      Arr(<<Element(GhJob, Ref(6)), Element(GhJob, Ref(6))>>)}}

InitHeap ==
    /\ \E P \in Platforms : \E tree \in HeapTrees(P) : heap = tree.heap /\ pipeline = tree.root
    /\ pc = "heap"
    /\ documents = <<>>
    /\ matchedFiles = <<>>
    /\ at = 0
    /\ outputFiles = <<>>
    /\ stderr = <<>>
    /\ exitCode = None
    /\ childList = None
    /\ flattened = None
    /\ flattenedAgain = None
    /\ argument = None
    /\ returned = None
    /\ chosen = None
    /\ compiled = None
    /\ output = None
    /\ calls = <<>>
    /\ extension = None
    /\ yamlIn = None
    /\ yamlOut = None
    /\ yamlTwice = None
    /\ resolved = None

\* const compiled = renderer.compilePipeline(tree), by a caller that keeps
\* the document.
CompilePipeline ==
    /\ pc = "heap"
    /\ Len(documents) < MaxCompilations
    /\ Bind(compilePipelineAt(heap, pipeline), LAMBDA r :
            /\ heap' = r.h
            /\ documents' = Append(documents, r.v))
    /\ UNCHANGED <<expandVars, cliVars, pipeline, pc, chosen, compiled, output, calls, extension, yamlIn, yamlOut,
                   yamlTwice, resolved>>

\* renderPipeline(tree): the compiled document is read by render (which
\* builds its own objects and the text from it) and is not kept.
RenderPipelineOnHeap ==
    /\ pc = "heap"
    /\ output = None
    /\ Bind(compilePipelineAt(heap, pipeline), LAMBDA r :
            /\ heap' = r.h
            /\ output' = IF IsThrow(r.v) THEN r.v
                         ELSE IF ~Truthy(r.v) THEN Null
                         ELSE render(getRenderer(pipeline).s, ValueAt(r.h, r.v)))
    /\ UNCHANGED <<expandVars, cliVars, pipeline, pc, chosen, compiled, documents, calls, extension, yamlIn, yamlOut,
                   yamlTwice, resolved>>

\* The caller changes a property of a compiled document, or of an object in
\* it: document.x.y = 'changed'.  On a frozen object the assignment throws
\* a TypeError (the caller is a module: strict mode).
ChangeDocument ==
    /\ pc = "heap"
    /\ \E i \in 1..Len(documents) :
        \E a \in Reach(heap, documents[i]) :
            \E j \in 1..Len(heap[a].entries) :
                IF heap[a].frozen
                THEN pc' = "TypeError" /\ heap' = heap
                ELSE /\ pc' = "changed"
                     /\ heap' = [heap EXCEPT ![a].entries =
                                    Put(@, heap[a].entries[j][1], Str("changed"))]
    /\ UNCHANGED <<expandVars, cliVars, pipeline, chosen, compiled, documents, output, calls, extension, yamlIn,
                   yamlOut, yamlTwice, resolved>>

NextHeap == CompilePipeline \/ RenderPipelineOnHeap \/ ChangeDocument

SpecHeap == InitHeap /\ [][NextHeap]_vars

-----------------------------------------------------------------------------
(* flattenChildren and resolveElement on their own: a list of children is   *)
(* flattened, the result is flattened again, and an element of the result   *)
(* is resolved.                                                             *)

MaxChildren == 2    \* children in the list handed to flattenChildren

\* What a child can be: an empty slot, a text, a primitive of the platform or
\* of the other one, a user-defined component, a Fragment, an array.
ExpandItems(P) ==
    LET step == IF P = "azure-devops" THEN StepWith(P, <<>>) ELSE StepWith(P, <<RunProp>>)
        job == JobWith(P, << <<"id", Str("build")>> >>, <<step>>)
        other == IF P = "azure-devops" THEN StepWith("github-actions", <<RunProp>>)
                 ELSE StepWith("azure-devops", <<>>)
    IN {Null, Bool(FALSE), Str("text"), step, job, other,
        Element(Wrap, Kids(<<step>>)), Element(Nothing, <<>>),
        FragmentOf(step), FragmentOf(Arr(<<step, FragmentOf(job)>>)), Arr(<<job, step>>)}

InitExpand ==
    /\ \E P \in Platforms :
        /\ chosen = Str(P)
        /\ \/ childList = Undefined
           \/ childList \in ExpandItems(P)
           \/ \E n \in 0..MaxChildren : \E items \in [1..n -> ExpandItems(P)] :
                childList = Arr(items)
    /\ flattened = None
    /\ flattenedAgain = None
    /\ argument = None
    /\ returned = None
    /\ pc = "expand"
    /\ pipeline = None
    /\ compiled = None
    /\ output = None
    /\ calls = <<>>
    /\ extension = None
    /\ yamlIn = None
    /\ yamlOut = None
    /\ yamlTwice = None
    /\ resolved = None
    /\ heap = <<>>
    /\ documents = <<>>
    /\ matchedFiles = <<>>
    /\ at = 0
    /\ outputFiles = <<>>
    /\ stderr = <<>>
    /\ exitCode = None

\* flattenChildren(children)
FlattenChildren ==
    /\ pc = "expand"
    /\ flattened' = Arr(flattenChildren(childList))
    /\ pc' = "flattened"
    /\ UNCHANGED <<childList, flattenedAgain, argument, returned, cliVars, heapVars, pipeline,
                   chosen, compiled, output, calls, extension, yamlIn, yamlOut, yamlTwice,
                   resolved>>

\* flattenChildren of what flattenChildren returned
FlattenAgain ==
    /\ pc = "flattened"
    /\ flattenedAgain = None
    /\ flattenedAgain' = Arr(flattenChildren(flattened))
    /\ UNCHANGED <<childList, flattened, argument, returned, cliVars, heapVars, pipeline, pc,
                   chosen, compiled, output, calls, extension, yamlIn, yamlOut, yamlTwice,
                   resolved>>

\* resolveElement(child, isPrimitiveComponent) for a child of the flat list
ResolveElement ==
    /\ pc = "flattened"
    /\ argument = None
    /\ \E i \in 1..Len(flattened.items) :
        /\ argument' = flattened.items[i]
        /\ returned' = resolveElement(flattened.items[i], chosen.s).v
    /\ UNCHANGED <<childList, flattened, flattenedAgain, cliVars, heapVars, pipeline, pc,
                   chosen, compiled, output, calls, extension, yamlIn, yamlOut, yamlTwice,
                   resolved>>

NextExpand == FlattenChildren \/ FlattenAgain \/ ResolveElement

SpecExpand == InitExpand /\ [][NextExpand]_vars

-----------------------------------------------------------------------------
(* The command line tool: the files its globs matched, and its loop over    *)
(* them.                                                                    *)

MaxFiles == 4       \* files matched by the globs

\* What a matched file exports as default: nothing, a value that is not a
\* function, or a function that returns a tree.
Function(returns) == [t |-> "function", returns |-> returns]
Module(default) == [t |-> "module", default |-> default]

CliTrees ==
    {RootOf("azure-devops", <<>>, <<StepWith("azure-devops", <<>>)>>),
     \* a Step with neither uses nor run: compilation throws
     RootOf("github-actions", <<>>,
            <<JobWith("github-actions", << <<"id", Str("build")>> >>,
                      <<StepWith("github-actions", <<>>)>>)>>),
     \* a component that throws when it is expanded
     RootOf("azure-devops", <<>>,
            <<JobWith("azure-devops", << <<"job", Str("build")>> >>,
                      <<Element(Boom, <<>>)>>)>>),
     \* a Root without children
     RootOf("azure-devops", <<>>, <<>>)}

\* A matched file: its module, or what importing it throws, and whether
\* fs.mkdir and fs.writeFile succeed for its output (asked only where the
\* loop gets that far: for a tree that renders).
CliFiles ==
    {[module |-> md, writable |-> TRUE]
        : md \in {Throw("SyntaxError"), Module(Undefined), Module(Str("not a function"))}
                 \cup {Module(Function(tree)) : tree \in CliTrees}}
    \cup {[module |-> Module(Function(tree)), writable |-> FALSE]
            : tree \in {tree \in CliTrees : renderPipeline(tree).output.t = "text"}}

\* The loop without its try and catch: a thrown error ends the process (an
\* unhandled rejection, exit code 1).
processFileUncaught(file) ==
    LET absPath == file.path
        uncaught(error) ==
            [outputFiles |-> <<>>, stderr |-> << <<"Uncaught", absPath, error>> >>,
             exit |-> Num(1)]
    IN IF IsThrow(file.module) THEN uncaught(file.module)
       ELSE IF file.module.default.t # "function"
       THEN [outputFiles |-> <<>>, stderr |-> <<>>, exit |-> None]
       ELSE Bind(renderPipeline(file.module.default.returns).output, LAMBDA out :
                IF IsThrow(out) THEN uncaught(out)
                ELSE IF ~Truthy(out)
                THEN [outputFiles |-> <<>>,
                      stderr |-> << <<"Failed to render pipeline from", absPath>> >>,
                      exit |-> Num(1)]
                ELSE IF ~file.writable THEN uncaught(Throw("EACCES"))
                ELSE [outputFiles |->
                          << <<absPath, getFileExtension(file.module.default.returns), out>> >>,
                      stderr |-> <<>>, exit |-> None])

\* One iteration of the loop, as what it appends to the files written and
\* to standard error, and the code it exits with (None: it goes on).
processFile(file) ==
    LET absPath == file.path
        caught(error) ==
            [outputFiles |-> <<>>, stderr |-> << <<"Error processing", absPath, error>> >>,
             exit |-> None]
    IN IF IsThrow(file.module) THEN caught(file.module)
       ELSE IF file.module.default.t # "function"
       THEN [outputFiles |-> <<>>, stderr |-> <<>>, exit |-> None]
       ELSE Bind(renderPipeline(file.module.default.returns).output, LAMBDA out :
                IF IsThrow(out) THEN caught(out)
                ELSE IF ~Truthy(out)
                THEN [outputFiles |-> <<>>,
                      stderr |-> << <<"Failed to render pipeline from", absPath>> >>,
                      exit |-> Num(1)]
                ELSE IF ~file.writable THEN caught(Throw("EACCES"))
                ELSE [outputFiles |->
                          << <<absPath, getFileExtension(file.module.default.returns), out>> >>,
                      stderr |-> <<>>, exit |-> None])

\* The i-th matched file has the path i.
InitCli ==
    /\ \E n \in 0..MaxFiles : \E files \in [1..n -> CliFiles] :
        matchedFiles = [i \in 1..n |->
                            [path |-> i, module |-> files[i].module,
                             writable |-> files[i].writable]]
    /\ at = 1
    /\ outputFiles = <<>>
    /\ stderr = <<>>
    /\ exitCode = None
    /\ childList = None
    /\ flattened = None
    /\ flattenedAgain = None
    /\ argument = None
    /\ returned = None
    /\ pc = "cli"
    /\ pipeline = None
    /\ chosen = None
    /\ compiled = None
    /\ output = None
    /\ calls = <<>>
    /\ extension = None
    /\ yamlIn = None
    /\ yamlOut = None
    /\ yamlTwice = None
    /\ resolved = None
    /\ heap = <<>>
    /\ documents = <<>>

\* const matchedFiles = await fg(inputPaths, ...); no file: exit(1)
MatchFiles ==
    /\ pc = "cli"
    /\ IF matchedFiles = <<>>
       THEN /\ stderr' = Append(stderr, <<"No files matched the provided globs.">>)
            /\ exitCode' = Num(1)
            /\ pc' = "exited"
       ELSE /\ pc' = "loop"
            /\ UNCHANGED <<stderr, exitCode>>
    /\ UNCHANGED <<expandVars, matchedFiles, at, outputFiles, heapVars, pipeline, chosen, compiled, output,
                   calls, extension, yamlIn, yamlOut, yamlTwice, resolved>>

\* for (const absPath of matchedFiles) { try { ... } catch (error) { ... } }
ProcessFile ==
    /\ pc = "loop"
    /\ at <= Len(matchedFiles)
    /\ Bind(processFile(matchedFiles[at]), LAMBDA did :
            /\ outputFiles' = outputFiles \o did.outputFiles
            /\ stderr' = stderr \o did.stderr
            /\ exitCode' = did.exit
            /\ pc' = IF did.exit = None THEN "loop" ELSE "exited"
            /\ at' = IF did.exit = None THEN at + 1 ELSE at)
    /\ UNCHANGED <<expandVars, matchedFiles, heapVars, pipeline, chosen, compiled, output, calls, extension,
                   yamlIn, yamlOut, yamlTwice, resolved>>

\* The loop is over and nothing is pending: the process ends, with code 0.
EndOfLoop ==
    /\ pc = "loop"
    /\ at > Len(matchedFiles)
    /\ exitCode' = Num(0)
    /\ pc' = "exited"
    /\ UNCHANGED <<expandVars, matchedFiles, at, outputFiles, stderr, heapVars, pipeline, chosen, compiled,
                   output, calls, extension, yamlIn, yamlOut, yamlTwice, resolved>>

NextCli == MatchFiles \/ ProcessFile \/ EndOfLoop

SpecCli == InitCli /\ [][NextCli]_vars


-----------------------------------------------------------------------------
(* What a tree says, read off the tree itself *)

IsRoot(node) == IsValidElement(node) /\ node.type \in {AzPipeline, GhWorkflow}
PlatformOf(root) == IF root.type = AzPipeline THEN "azure-devops" ELSE "github-actions"
ChildrenOf(element) == Get(element.props, "children")

\* The child slots of a node, arrays and fragments opened, in document order.
RECURSIVE Slots(_)
RECURSIVE SlotsOfItems(_)
SlotsOfItems(items) ==
    IF items = <<>> THEN <<>> ELSE Slots(Head(items)) \o SlotsOfItems(Tail(items))

Slots(v) ==
    IF v.t = "array" THEN SlotsOfItems(v.items)
    ELSE IF v.t = "element" /\ v.type = Fragment THEN Slots(ChildrenOf(v))
    ELSE IF v.t = "element" THEN <<v>>
    ELSE <<>>

\* The components that hand their children on, and the one that makes a primitive.
PassesChildren(type) == type \in {Wrap, WrapClass, Alias}

\* The Steps of platform P below v in depth-first declaration order, seen
\* through arrays, fragments, user-defined components and every other element
\* that is not a Step.
RECURSIVE StepLeaves(_, _)
RECURSIVE StepLeavesOfItems(_, _)
StepLeavesOfItems(items, P) ==
    IF items = <<>> THEN <<>>
    ELSE StepLeaves(Head(items), P) \o StepLeavesOfItems(Tail(items), P)

StepLeaves(v, P) ==
    IF v.t = "array" THEN StepLeavesOfItems(v.items, P)
    ELSE IF v.t # "element" THEN <<>>
    ELSE IF v.type = StepOf(P) THEN <<v>>
    ELSE IF v.type = Make
    THEN StepLeaves(Element(Get(v.props, "as").s, Rest(v.props, "as")), P)
    ELSE IF v.type = Fragment \/ PassesChildren(v.type) THEN StepLeaves(ChildrenOf(v), P)
    ELSE IF v.type \in UserComponents \cup {AzStep, GhStep} THEN <<>>
    ELSE StepLeaves(ChildrenOf(v), P)

\* v holds nothing but Steps, fragments, arrays and components around Steps.
RECURSIVE OnlyNestedSteps(_, _)
OnlyNestedSteps(v, P) ==
    IF v.t = "array" THEN \A i \in 1..Len(v.items) : OnlyNestedSteps(v.items[i], P)
    ELSE IF v.t # "element" THEN v.t = "undefined"
    ELSE IF v.type = StepOf(P) THEN TRUE
    ELSE IF v.type = Make THEN Get(v.props, "as").s = StepOf(P)
    ELSE IF v.type = Fragment \/ PassesChildren(v.type) THEN OnlyNestedSteps(ChildrenOf(v), P)
    ELSE FALSE

\* How deep the deepest Step of v lies below v.
RECURSIVE Depth(_)
Max(a, b) == IF a > b THEN a ELSE b
RECURSIVE DepthOfItems(_)
DepthOfItems(items) ==
    IF items = <<>> THEN 0 ELSE Max(Depth(Head(items)), DepthOfItems(Tail(items)))

Depth(v) ==
    IF v.t = "array" THEN DepthOfItems(v.items)
    ELSE IF v.t = "element" /\ HasKey(v.props, "children") THEN 1 + Depth(ChildrenOf(v))
    ELSE 0

\* A Step's flag and validity.
Enabled(step) ==
    Get(step.props, "enabled").t = "undefined" \/ Truthy(Get(step.props, "enabled"))
Set(step, k) == HasKey(step.props, k) /\ Truthy(Get(step.props, k))
Valid(step, P) == P = "azure-devops" \/ (Set(step, "uses") # Set(step, "run"))

Range(seq) == {seq[i] : i \in 1..Len(seq)}
NamesOf(seq, key) == [i \in 1..Len(seq) |-> Get(seq[i].props, key)]

\* The Root's children are Jobs of its platform and nothing else (on GitHub
\* Actions with different ids, none of them an array index): the compiled
\* jobs are those, one for one and in their order.
JobsOnly(root) ==
    LET P == PlatformOf(root)
        kids == Slots(ChildrenOf(root))
    IN /\ Len(kids) > 0
       /\ \A i \in 1..Len(kids) : kids[i].type = JobOf(P)
       /\ P = "github-actions" =>
            /\ \A i, j \in 1..Len(kids) :
                  i # j => GitHubActions_jobId(kids[i].props)
                               # GitHubActions_jobId(kids[j].props)
            /\ \A i \in 1..Len(kids) :
                  Get(kids[i].props, "id").t = "string"
                      => ~IsArrayIndex(Get(kids[i].props, "id").s)

\* The compiled jobs of a compiled document, in the order of the document.
CompiledJobs(doc) ==
    LET jobs == Get(doc.entries, "jobs")
    IN IF jobs.t = "array" THEN jobs.items
       ELSE IF jobs.t = "object" THEN [i \in 1..Len(jobs.entries) |-> jobs.entries[i][2]]
       ELSE <<>>

CompiledSteps(job) == Get(job.entries, "steps").items
CompiledNames(objs, key) == [i \in 1..Len(objs) |-> Get(objs[i].entries, key)]

-----------------------------------------------------------------------------
(* The claims *)

\* C1: on both platforms, a Job whose children hold N enabled, valid Steps
\* nested at any depth under fragments and user-defined function or class
\* components compiles to a job with exactly those N steps, in depth-first
\* declaration order.
C1_NestedStepsInOrder ==
    (pc = "rendered" /\ IsRoot(pipeline) /\ JobsOnly(pipeline)) =>
        LET P == PlatformOf(pipeline)
            kids == Slots(ChildrenOf(pipeline))
            ok(j) == LET leaves == StepLeaves(ChildrenOf(j), P)
                     IN /\ OnlyNestedSteps(ChildrenOf(j), P)
                        /\ \A i \in 1..Len(leaves) : Enabled(leaves[i]) /\ Valid(leaves[i], P)
        IN (\A i \in 1..Len(kids) : ok(kids[i])) =>
              /\ compiled.t = "object"
              /\ Len(CompiledJobs(compiled)) = Len(kids)
              /\ \A i \in 1..Len(kids) :
                    CompiledNames(CompiledSteps(CompiledJobs(compiled)[i]), LabelKey(StepOf(P)))
                        = NamesOf(StepLeaves(ChildrenOf(kids[i]), P), LabelKey(StepOf(P)))

\* C1 witness: a Job with two Steps, one of them two levels down, compiled in order.
C1_Witness ==
    /\ pc = "rendered" /\ IsRoot(pipeline) /\ JobsOnly(pipeline)
    /\ PlatformOf(pipeline) = "github-actions"
    /\ LET j == Slots(ChildrenOf(pipeline))[1]
       IN /\ OnlyNestedSteps(ChildrenOf(j), "github-actions")
          /\ Depth(ChildrenOf(j)) >= 2
          /\ Len(StepLeaves(ChildrenOf(j), "github-actions")) = 2
    /\ compiled.t = "object"
    /\ Len(CompiledSteps(CompiledJobs(compiled)[1])) = 2

\* The Steps of all the Jobs of a Root, in document order.
RECURSIVE StepsOfJobs(_, _)
StepsOfJobs(jobs, P) ==
    IF jobs = <<>> THEN <<>>
    ELSE StepLeaves(ChildrenOf(Head(jobs)), P) \o StepsOfJobs(Tail(jobs), P)

AllSteps(root) == StepsOfJobs(Slots(ChildrenOf(root)), PlatformOf(root))

\* A user-defined component threw during the compilation.
RuleThrew == \E i \in 1..Len(calls) : calls[i].type = Boom

\* The error of a Step that fails GitHub Actions validation.
ErrorOf(step) ==
    IF Set(step, "uses") /\ Set(step, "run") THEN Throw(CannotHaveBoth)
    ELSE Throw(MustHaveEither)

\* A workflow of Jobs whose Steps were all collected: no component threw.
C2_Case ==
    /\ pc = "rendered" /\ IsRoot(pipeline) /\ PlatformOf(pipeline) = "github-actions"
    /\ JobsOnly(pipeline) /\ ~RuleThrew

UnitType(slot) == IF slot.type = Make THEN Get(slot.props, "as").s ELSE slot.type

UnitsOf(root, type) == SelectSeq(Slots(ChildrenOf(root)), LAMBDA k : UnitType(k) = type)

\* The names of the members of a sequence of units that are not disabled.
EnabledNames(units, key) ==
    NamesOf(SelectSeq(units, LAMBDA k : Enabled(k)), key)

\* A Pipeline with children, compiled without a component throwing.
C3_Case ==
    /\ pc = "rendered" /\ IsRoot(pipeline) /\ PlatformOf(pipeline) = "azure-devops"
    /\ Truthy(ChildrenOf(pipeline)) /\ ~RuleThrew

Buckets == {"stages", "jobs", "steps"}

\* C3: Azure DevOps: the compiled document has exactly one of the keys
\* stages, jobs, steps.  With a Stage among the Root's top-level children it
\* is stages and lists the Stages only; otherwise with a Job it is jobs;
\* otherwise with a Step it is steps; the members are in declaration order.
C3_OneBucketByPriority ==
    C3_Case =>
        LET stages == UnitsOf(pipeline, AzStage)
            jobs == UnitsOf(pipeline, AzJob)
            steps == UnitsOf(pipeline, AzStep)
            names(k, key) == CompiledNames(Get(compiled.entries, k).items, key)
        IN /\ compiled.t = "object"
           /\ Cardinality({k \in Buckets : HasKey(compiled.entries, k)}) = 1
           /\ stages # <<>> =>
                /\ HasKey(compiled.entries, "stages")
                /\ names("stages", "stage") = NamesOf(stages, "stage")
           /\ (stages = <<>> /\ jobs # <<>>) =>
                /\ HasKey(compiled.entries, "jobs")
                /\ names("jobs", "job") = NamesOf(jobs, "job")
           /\ (stages = <<>> /\ jobs = <<>> /\ steps # <<>>) =>
                /\ HasKey(compiled.entries, "steps")
                /\ names("steps", "displayName") = EnabledNames(steps, "displayName")

\* C3 witness: a Job and then a Stage at the top level: the document is the
\* stages bucket with that one Stage, and the Job is not emitted.
C3_Witness ==
    /\ C3_Case
    /\ LET kids == Slots(ChildrenOf(pipeline))
       IN /\ Len(kids) = 2
          /\ UnitType(kids[1]) = AzJob
          /\ UnitType(kids[2]) = AzStage
    /\ compiled.t = "object"
    /\ Keys(compiled.entries) = <<"trigger", "pool", "variables", "stages">>
    /\ Len(Get(compiled.entries, "stages").items) = 1

\* C4: on both platforms, renderPipeline of a Root without children returns
\* null, whatever the Root's other properties, and throws nothing (no
\* document is compiled and no component is called).
C4_EmptyRootGivesNull ==
    (pc = "rendered" /\ IsRoot(pipeline) /\ ~HasKey(pipeline.props, "children")) =>
        output = Null /\ compiled = Null /\ calls = <<>>

\* C4 witness: a Pipeline with trigger="none" and a pool, no children, rendered
\* to null.
C4_Witness ==
    /\ pc = "rendered"
    /\ pipeline.t = "element" /\ pipeline.type = AzPipeline
    /\ Keys(pipeline.props) = <<"trigger", "pool">>
    /\ output = Null

\* An Azure DevOps tree compiled without a component throwing.
C5_Case ==
    /\ pc = "rendered" /\ IsRoot(pipeline) /\ PlatformOf(pipeline) = "azure-devops"
    /\ Truthy(ChildrenOf(pipeline)) /\ ~RuleThrew

\* The Root's top-level children are Steps and nothing else.
StepsOnly(root) ==
    LET kids == Slots(ChildrenOf(root))
    IN Len(kids) > 0 /\ \A i \in 1..Len(kids) : kids[i].type = StepOf(PlatformOf(root))

\* C5: Azure DevOps: the compiled steps of a Job, and of a Root's steps
\* bucket, are the Steps whose enabled flag is absent or truthy, in their
\* original relative order; a Step whose flag is explicitly falsy (false,
\* null, 0) is left out and no error is raised.
C5_DisabledStepsLeftOut ==
    C5_Case =>
        LET kids == Slots(ChildrenOf(pipeline))
        IN /\ JobsOnly(pipeline) =>
                /\ output.t = "text"
                /\ Len(CompiledJobs(compiled)) = Len(kids)
                /\ \A i \in 1..Len(kids) :
                      CompiledNames(CompiledSteps(CompiledJobs(compiled)[i]), "displayName")
                        = EnabledNames(StepLeaves(ChildrenOf(kids[i]), "azure-devops"),
                                       "displayName")
           /\ StepsOnly(pipeline) =>
                /\ output.t = "text"
                /\ CompiledNames(Get(compiled.entries, "steps").items, "displayName")
                        = EnabledNames(kids, "displayName")

\* C5 witness: a Job with a Step without the flag, a Step with enabled={false}
\* and a Step with enabled={true}: the first and the third are compiled.
C5_Witness ==
    /\ C5_Case /\ JobsOnly(pipeline)
    /\ LET steps == StepLeaves(ChildrenOf(Slots(ChildrenOf(pipeline))[1]), "azure-devops")
       IN /\ Len(steps) = 3
          /\ ~HasKey(steps[1].props, "enabled")
          /\ Get(steps[2].props, "enabled") = Bool(FALSE)
          /\ Get(steps[3].props, "enabled") = Bool(TRUE)
          /\ CompiledNames(CompiledSteps(CompiledJobs(compiled)[1]), "displayName")
                = <<Get(steps[1].props, "displayName"), Get(steps[3].props, "displayName")>>
    /\ output.t = "text"

\* The rename table as documented: camelCase key, key on the wire.
RenameTable ==
    {<<"runName", "run-name">>, <<"runsOn", "runs-on">>,
     <<"continueOnError", "continue-on-error">>, <<"timeoutMinutes", "timeout-minutes">>,
     <<"workingDirectory", "working-directory">>, <<"failFast", "fail-fast">>,
     <<"maxParallel", "max-parallel">>, <<"cancelInProgress", "cancel-in-progress">>,
     <<"branchesIgnore", "branches-ignore">>, <<"tagsIgnore", "tags-ignore">>,
     <<"pathsIgnore", "paths-ignore">>, <<"pullRequest", "pull_request">>,
     <<"workflowDispatch", "workflow_dispatch">>, <<"workflowCall", "workflow_call">>}

WireSpelling(key) ==
    IF \E row \in RenameTable : row[1] = key
    THEN (CHOOSE row \in RenameTable : row[1] = key)[2]
    ELSE key

\* b is a with its keys renamed at every depth.  The entries of a map keep
\* their order; an entry whose value is undefined is not carried over; of two
\* entries that come to the same wire key, the later one's value stays.
RECURSIVE Renamed(_, _)
Renamed(a, b) ==
    IF a.t = "array"
    THEN /\ b.t = "array"
         /\ Len(b.items) = Len(a.items)
         /\ \A i \in 1..Len(a.items) : Renamed(a.items[i], b.items[i])
    ELSE IF a.t = "object"
    THEN LET given == SelectSeq(a.entries, LAMBDA e : e[2].t # "undefined")
             wire == [i \in 1..Len(given) |-> WireSpelling(given[i][1])]
             last(i) == \A j \in 1..Len(given) : j > i => wire[j] # wire[i]
         IN /\ b.t = "object"
            /\ {b.entries[i][1] : i \in 1..Len(b.entries)} = {wire[i] : i \in 1..Len(given)}
            /\ Len(b.entries) = Cardinality({wire[i] : i \in 1..Len(given)})
            /\ (\A i \in 1..Len(given) : last(i)) => Keys(b.entries) = wire
            /\ \A i \in 1..Len(given) : last(i) => Renamed(given[i][2], Get(b.entries, wire[i]))
    ELSE b = a

\* C6: convertToYamlFormat replaces every key of the rename table by its wire
\* spelling at every depth of maps and arrays, leaves every other key, the
\* order of the entries and every value as they are, and applied to its own
\* result changes nothing.
C6_RenamingAtEveryDepthIdempotent ==
    /\ pc \in {"converted", "converted twice"} => Renamed(yamlIn, yamlOut)
    /\ pc = "converted twice" => yamlTwice = yamlOut

\* C6 witness: runsOn two levels down, in a map in an array in a map, renamed
\* together with the key above it, and the second application changing nothing.
C6_Witness ==
    /\ pc = "converted twice"
    /\ yamlIn = Obj(<< <<"pullRequest",
                         Arr(<<Obj(<< <<"runsOn", Str("ubuntu-latest")>> >>), Str("x")>>)>> >>)
    /\ yamlOut = Obj(<< <<"pull_request",
                          Arr(<<Obj(<< <<"runs-on", Str("ubuntu-latest")>> >>), Str("x")>>)>> >>)
    /\ yamlTwice = yamlOut

\* The properties each compiler reads from a node, and the key of its children.
FieldsOf(unit) ==
    CASE unit.type = AzPipeline -> {"trigger", "pool", "variables"}
      [] unit.type = AzStage ->
            {"stage", "displayName", "pool", "dependsOn", "condition", "variables"}
      [] unit.type = AzJob ->
            {"job", "displayName", "condition", "continueOnError", "dependsOn", "pool",
             "workspace", "variables"}
      [] unit.type = AzStep -> {k \in Range(Keys(unit.props)) : k # "enabled"}
      [] unit.type = GhWorkflow ->
            {"name", "runName", "on", "permissions", "env", "defaults", "concurrency"}
      [] unit.type = GhJob ->
            {"name", "runsOn", "needs", "if", "permissions", "env", "defaults", "strategy",
             "continueOnError", "timeoutMinutes", "container", "services"}
      [] unit.type = GhStep -> Range(Keys(unit.props))

BucketsOf(unit) ==
    CASE unit.type = AzPipeline -> {"stages", "jobs", "steps"}
      [] unit.type \in {AzStage, GhWorkflow} -> {"jobs"}
      [] unit.type \in {AzJob, GhJob} -> {"steps"}
      [] OTHER -> {}

\* The key a property is written under.
WrittenAs(unit, k) == IF unit.type \in GhPrimitives THEN WireSpelling(k) ELSE k

\* The Root's top-level children are Stages, and theirs are Jobs.
StagesOnly(root) ==
    LET kids == Slots(ChildrenOf(root))
    IN /\ Len(kids) > 0
       /\ \A i \in 1..Len(kids) :
            /\ kids[i].type = AzStage
            /\ \A j \in 1..Len(Slots(ChildrenOf(kids[i]))) :
                  Slots(ChildrenOf(kids[i]))[j].type = AzJob

\* The Steps of a Job that are compiled, given that no error was raised.
CompiledLeaves(job) ==
    IF job.type = AzJob
    THEN SelectSeq(StepLeaves(ChildrenOf(job), "azure-devops"), Enabled)
    ELSE StepLeaves(ChildrenOf(job), "github-actions")

\* Node by node: every Stage, Job and Step of the tree with the mapping that
\* the parsed document has for it.
ListOf(v, key) == IF Get(v.entries, key).t = "array" THEN Get(v.entries, key).items ELSE <<>>

JobAligned(job, m) ==
    m.t = "object" /\ Len(ListOf(m, "steps")) = Len(CompiledLeaves(job))

JobPairs(job, m) ==
    {<<job, m>>}
    \cup {<<CompiledLeaves(job)[i], ListOf(m, "steps")[i]>> : i \in 1..Len(CompiledLeaves(job))}

JobsAligned(jobs, ms) ==
    Len(ms) = Len(jobs) /\ \A i \in 1..Len(jobs) : JobAligned(jobs[i], ms[i])

Aligned(root, doc) ==
    /\ doc.t = "object"
    /\ LET kids == Slots(ChildrenOf(root))
       IN IF StagesOnly(root)
          THEN /\ Len(ListOf(doc, "stages")) = Len(kids)
               /\ \A i \in 1..Len(kids) :
                     /\ ListOf(doc, "stages")[i].t = "object"
                     /\ JobsAligned(Slots(ChildrenOf(kids[i])),
                                    ListOf(ListOf(doc, "stages")[i], "jobs"))
          ELSE IF JobsOnly(root) THEN JobsAligned(kids, CompiledJobs(doc))
          ELSE IF StepsOnly(root)
          THEN Len(ListOf(doc, "steps")) = Len(SelectSeq(kids, Enabled))
          ELSE TRUE

PairsOf(root, doc) ==
    LET kids == Slots(ChildrenOf(root))
    IN {<<root, doc>>}
       \cup (IF StagesOnly(root)
             THEN UNION {{<<kids[i], ListOf(doc, "stages")[i]>>}
                         \cup UNION {JobPairs(Slots(ChildrenOf(kids[i]))[j],
                                              ListOf(ListOf(doc, "stages")[i], "jobs")[j])
                                     : j \in 1..Len(Slots(ChildrenOf(kids[i])))}
                         : i \in 1..Len(kids)}
             ELSE IF JobsOnly(root)
             THEN UNION {JobPairs(kids[i], CompiledJobs(doc)[i]) : i \in 1..Len(kids)}
             ELSE IF StepsOnly(root)
             THEN {<<SelectSeq(kids, Enabled)[i], ListOf(doc, "steps")[i]>>
                   : i \in 1..Len(SelectSeq(kids, Enabled))}
             ELSE {})

\* No null anywhere in a parsed document.
RECURSIVE NoNulls(_)
NoNulls(v) ==
    CASE v.t = "object" -> \A i \in 1..Len(v.entries) : NoNulls(v.entries[i][2])
      [] v.t = "array" -> \A i \in 1..Len(v.items) : NoNulls(v.items[i])
      [] OTHER -> v.t # "null"

\* renderPipeline returned text for a Root.
Rendered == pc = "rendered" /\ IsRoot(pipeline) /\ output.t = "text"

\* C7: on both platforms, at every level (Root, Stage, Job, Step) the keys of a
\* node's mapping in the serialized document are properties that the node's
\* bag gives a value, and the key of its children: a property that is absent
\* or undefined is not written, and the document holds no null in its place.
C7_AbsentPropertiesNotWritten ==
    Rendered =>
        LET doc == yamlLoad(output.yaml)
        IN /\ NoNulls(doc)
           /\ Aligned(pipeline, doc)
           /\ \A p \in PairsOf(pipeline, doc) :
                Range(Keys(p[2].entries))
                    \subseteq {WrittenAs(p[1], k) :
                                 k \in {f \in FieldsOf(p[1]) : Get(p[1].props, f).t # "undefined"}}
                              \cup BucketsOf(p[1])

\* C7 witness: a workflow whose Job has timeoutMinutes={undefined} and whose
\* Step has no name: the parsed job has runs-on and steps and nothing else.
C7_Witness ==
    /\ Rendered /\ PlatformOf(pipeline) = "github-actions" /\ JobsOnly(pipeline)
    /\ LET job == Slots(ChildrenOf(pipeline))[1]
           parsed == CompiledJobs(yamlLoad(output.yaml))[1]
       IN /\ HasKey(job.props, "timeoutMinutes")
          /\ Get(job.props, "timeoutMinutes") = Undefined
          /\ Len(CompiledLeaves(job)) = 2
          /\ ~HasKey(CompiledLeaves(job)[1].props, "name")
          /\ Keys(parsed.entries) = <<"runs-on", "steps">>
          /\ Keys(ListOf(parsed, "steps")[1].entries) = <<"uses", "with">>

IsScalar(x) == x.t \in {"number", "boolean", "string"}

\* A value without the entries that are undefined.
RECURSIVE Defined(_)
Defined(x) ==
    IF x.t = "object"
    THEN LET given == SelectSeq(x.entries, LAMBDA e : e[2].t # "undefined")
         IN Obj([i \in 1..Len(given) |-> <<given[i][1], Defined(given[i][2])>>])
    ELSE x

RendererOf(node) ==
    IF IsValidElement(node) /\ node.type = AzPipeline THEN Str("azure-devops")
    ELSE IF IsValidElement(node) /\ node.type = GhWorkflow THEN Str("github-actions")
    ELSE Null

C10_ErrorsPropagateUnmodified ==
    pc = "rendered" =>
        /\ RuleThrew => output = Throw("boom")
        /\ (C2_Case /\ \E i \in 1..Len(AllSteps(pipeline)) :
                            ~Valid(AllSteps(pipeline)[i], "github-actions"))
              => output \in {Throw(CannotHaveBoth), Throw(MustHaveEither)}
        /\ IsThrow(compiled) => output = compiled
        /\ output.t = "text" => (~RuleThrew /\ ~IsThrow(compiled))

\* C10 witness: two Jobs, the first compiles, a component in the second throws
\* after a Step of it was collected: the caller gets that error.
C10_Witness ==
    /\ pc = "rendered" /\ IsRoot(pipeline) /\ JobsOnly(pipeline)
    /\ LET kids == Slots(ChildrenOf(pipeline))
       IN /\ Len(kids) = 2
          /\ Len(Slots(ChildrenOf(kids[1]))) = 1
          /\ Slots(ChildrenOf(kids[1]))[1].type = StepOf(PlatformOf(pipeline))
          /\ Len(Slots(ChildrenOf(kids[2]))) = 2
          /\ Slots(ChildrenOf(kids[2]))[2].type = Boom
    /\ RuleThrew
    /\ output = Throw("boom")

\* The user-defined nodes of v in document order, those a rule returns right
\* after the node whose rule returned them.
RECURSIVE Expansions(_)
RECURSIVE ExpansionsOfItems(_)
ExpansionsOfItems(items) ==
    IF items = <<>> THEN <<>> ELSE Expansions(Head(items)) \o ExpansionsOfItems(Tail(items))

Expansions(v) ==
    IF v.t = "array" THEN ExpansionsOfItems(v.items)
    ELSE IF v.t # "element" THEN <<>>
    ELSE IF v.type \in UserComponents
    THEN <<v>> \o Expansions(ComponentBody(v.type, v.props))
    ELSE Expansions(ChildrenOf(v))

\* A Root whose top-level children are all Jobs, written as Jobs or as
\* user-defined nodes that return a Job, compiled without an error.
C11_Case ==
    /\ pc = "rendered" /\ IsRoot(pipeline) /\ ~IsThrow(output)
    /\ LET kids == Slots(ChildrenOf(pipeline))
       IN /\ Len(kids) > 0
          /\ \A i \in 1..Len(kids) : UnitType(kids[i]) = JobOf(PlatformOf(pipeline))

\* C11: during one compilation the rule of every user-defined node of the
\* tree is invoked exactly once, in document order, for the nodes directly
\* under the Root as for those inside a Job: the calls made are the
\* user-defined nodes of the tree, each once, in document order.
C11_EveryRuleInvokedOnceInOrder ==
    C11_Case => calls = Expansions(ChildrenOf(pipeline))

\* C11 witness: a Pipeline whose one child is a user-defined node that returns
\* a Job was compiled to text, and the node's rule was invoked four times.
C11_Witness ==
    /\ C11_Case /\ PlatformOf(pipeline) = "azure-devops"
    /\ Len(Slots(ChildrenOf(pipeline))) = 1
    /\ Slots(ChildrenOf(pipeline))[1].type = Make
    /\ Expansions(ChildrenOf(pipeline)) = <<Slots(ChildrenOf(pipeline))[1]>>
    /\ calls = [i \in 1..4 |-> Slots(ChildrenOf(pipeline))[1]]
    /\ output.t = "text"

\* C12: compilation always terminates: a chain of user-defined nodes that
\* keeps expanding to user-defined nodes (a rule that returns a node of its
\* own kind) ends in an error instead of expanding without bound: the
\* resolution of a child always comes to an end, returning or throwing.
C12_ExpansionAlwaysEnds == <>(pc \in {"resolved", "thrown"})

\* C12 witness: the loop is in its body again with a node of the kind it was
\* given, after a full turn.
C12_Witness ==
    /\ pc = "body"
    /\ pipeline.type = Loop
    /\ resolved = pipeline

\* The primitives of platform P that v comes to when every user-defined node
\* is replaced by what its rule returns and every fragment and array by its
\* members, in declaration order.
RECURSIVE TopUnits(_, _)
RECURSIVE TopUnitsOfItems(_, _)
TopUnitsOfItems(items, P) ==
    IF items = <<>> THEN <<>>
    ELSE TopUnits(Head(items), P) \o TopUnitsOfItems(Tail(items), P)

TopUnits(v, P) ==
    IF v.t = "array" THEN TopUnitsOfItems(v.items, P)
    ELSE IF v.t # "element" THEN <<>>
    ELSE IF isPrimitiveComponent(P, v.type) THEN <<v>>
    ELSE IF v.type = Fragment THEN TopUnits(ChildrenOf(v), P)
    ELSE IF v.type \in UserComponents THEN TopUnits(ComponentBody(v.type, v.props), P)
    ELSE <<>>

UnitsOfType(v, P, type) == SelectSeq(TopUnits(v, P), LAMBDA u : u.type = type)

\* The names under key of the members of bucket k of a compiled node.
BucketNames(doc, k, key) ==
    IF doc.t = "object" /\ Get(doc.entries, k).t \in {"array", "object"}
    THEN CompiledNames(CompiledJobs(Obj(<< <<"jobs", Get(doc.entries, k)>> >>)), key)
    ELSE <<>>

\* A Root with children, compiled without an error; on GitHub Actions the
\* Jobs it comes to have different ids.
C13_Case ==
    /\ pc = "rendered" /\ IsRoot(pipeline) /\ Truthy(ChildrenOf(pipeline))
    /\ ~IsThrow(output)
    /\ PlatformOf(pipeline) = "github-actions" =>
         LET jobs == UnitsOfType(ChildrenOf(pipeline), "github-actions", GhJob)
         IN \A i, j \in 1..Len(jobs) :
                i # j => GitHubActions_jobId(jobs[i].props)
                             # GitHubActions_jobId(jobs[j].props)

\* C13: a user-defined node directly under a Root, or directly under an
\* Azure DevOps Stage, that comes through any chain of user-defined nodes and
\* fragments to Stage, Job or Step primitives contributes exactly those
\* primitives to the buckets of the document, in declaration order, as if
\* they had been written in its place.
C13_ExpandedUnitsAsIfInline ==
    C13_Case =>
        LET P == PlatformOf(pipeline)
            kids == ChildrenOf(pipeline)
            stages == UnitsOfType(kids, P, AzStage)
            jobs == UnitsOfType(kids, P, JobOf(P))
            steps == UnitsOfType(kids, P, AzStep)
        IN IF P = "github-actions"
           THEN jobs # <<>> => BucketNames(compiled, "jobs", "name") = NamesOf(jobs, "name")
           ELSE /\ stages # <<>> =>
                    /\ BucketNames(compiled, "stages", "stage") = NamesOf(stages, "stage")
                    /\ \A i \in 1..Len(stages) :
                          BucketNames(Get(compiled.entries, "stages").items[i], "jobs", "job")
                            = NamesOf(UnitsOfType(ChildrenOf(stages[i]), P, AzJob), "job")
                /\ (stages = <<>> /\ jobs # <<>>) =>
                    BucketNames(compiled, "jobs", "job") = NamesOf(jobs, "job")
                /\ (stages = <<>> /\ jobs = <<>> /\ steps # <<>>) =>
                    BucketNames(compiled, "steps", "displayName")
                        = EnabledNames(steps, "displayName")

\* C13 witness: a Pipeline whose one child is a user-defined node that
\* returns a fragment around its children, a Job: the document has no jobs
\* bucket, it has the empty stages bucket.
C13_Witness ==
    /\ C13_Case /\ PlatformOf(pipeline) = "azure-devops"
    /\ Len(Slots(ChildrenOf(pipeline))) = 1
    /\ Slots(ChildrenOf(pipeline))[1].type = Wrap
    /\ Len(UnitsOfType(ChildrenOf(pipeline), "azure-devops", AzJob)) = 1
    /\ compiled.t = "object"
    /\ Keys(compiled.entries) = <<"trigger", "pool", "variables", "stages">>
    /\ Get(compiled.entries, "stages") = Arr(<<>>)


\* The Root, Stages and Jobs of the tree, each with the object compiled for it.
UnitPairs(root, doc) ==
    {p \in PairsOf(root, doc) :
        p[1].type \in {AzPipeline, AzStage, AzJob, GhWorkflow, GhJob}}

\* A Root was compiled to an object.
CompiledRoot == pc = "rendered" /\ IsRoot(pipeline) /\ compiled.t = "object"

\* What _compileStage makes of a pool: a string becomes the name of a pool.
PoolNamed(pool) == IF pool.t = "string" THEN Obj(<< <<"name", pool>> >>) ELSE pool

\* C14 (as the code has it): for every Root, Stage and Job on both platforms,
\* the compiled object holds, for each property of the fixed set that the bag
\* gives, the bag's value itself, except that a Stage's pool given as a string
\* is compiled to an object holding that string as its name; and the compiled
\* object has no key outside the fixed set and the child bucket.
C14_FieldsCopiedStagePoolNamed ==
    CompiledRoot =>
        /\ Aligned(pipeline, compiled)
        /\ \A p \in UnitPairs(pipeline, compiled) :
            /\ Range(Keys(p[2].entries)) \subseteq FieldsOf(p[1]) \cup BucketsOf(p[1])
            /\ \A k \in FieldsOf(p[1]) :
                HasKey(p[1].props, k) =>
                    Get(p[2].entries, k) =
                        IF p[1].type = AzStage /\ k = "pool"
                        THEN PoolNamed(Get(p[1].props, k))
                        ELSE Get(p[1].props, k)

\* C14 (as stated): for every Root, Stage and Job on both platforms, the
\* compiled object holds, for each property of the fixed set that the bag
\* gives, a value identical to the bag's value, with no reshaping, and has no
\* key outside the fixed set and the child bucket.
C14_FieldsCopiedVerbatim ==
    CompiledRoot =>
        \A p \in UnitPairs(pipeline, compiled) :
            /\ Range(Keys(p[2].entries)) \subseteq FieldsOf(p[1]) \cup BucketsOf(p[1])
            /\ \A k \in FieldsOf(p[1]) :
                HasKey(p[1].props, k) => Get(p[2].entries, k) = Get(p[1].props, k)

\* A Pipeline of two Stages was compiled: the second Stage gives its pool as
\* the string Default and its dependency as a list, its second Job gives a
\* pool object and a property that _compileJob does not read.
C14_Witness ==
    /\ CompiledRoot
    /\ pipeline \in FieldTrees("azure-devops")
    /\ \E p \in UnitPairs(pipeline, compiled) :
        /\ p[1].type = AzStage
        /\ Get(p[1].props, "pool") = Str("Default")
        /\ Get(p[1].props, "dependsOn").t = "array"
        /\ Get(p[2].entries, "pool") = Obj(<< <<"name", Str("Default")>> >>)
    /\ \E p \in UnitPairs(pipeline, compiled) :
        /\ p[1].type = AzJob
        /\ HasKey(p[1].props, "timeoutInMinutes")
        /\ Get(p[1].props, "pool").t = "object"
        /\ Get(p[2].entries, "pool") = Get(p[1].props, "pool")


\* A dependency as it is declared: one name or a list of names.
IsDependency(d) ==
    \/ d.t = "string"
    \/ d.t = "array" /\ \A i \in 1..Len(d.items) : d.items[i].t = "string"

\* The key a Stage or Job declares its dependencies under.
DependencyKey(unit) == IF unit.type = GhJob THEN "needs" ELSE "dependsOn"

\* C15: for every Stage and Job that declares a dependency (dependsOn on Azure
\* DevOps, needs on GitHub Actions) as one name or as a list of names, the
\* parsed output holds the same value under the same key (a string is a
\* string, a list is the same list in the same order), whether or not a unit
\* of that name exists; and a GitHub Actions Job's runsOn is written under
\* runs-on, and not under runsOn.
C15_DependenciesPreserved ==
    Rendered =>
        LET doc == yamlLoad(output.yaml)
        IN /\ Aligned(pipeline, doc)
           /\ \A p \in PairsOf(pipeline, doc) :
                p[1].type \in {AzStage, AzJob, GhJob} =>
                    /\ IsDependency(Get(p[1].props, DependencyKey(p[1])))
                        => Get(p[2].entries, DependencyKey(p[1]))
                              = Get(p[1].props, DependencyKey(p[1]))
                    /\ (p[1].type = GhJob /\ HasKey(p[1].props, "runsOn"))
                        => /\ Get(p[2].entries, "runs-on") = Get(p[1].props, "runsOn")
                           /\ ~HasKey(p[2].entries, "runsOn")

\* A Workflow of two Jobs was rendered: the second needs a job that is not
\* in the Workflow, given as one name, and the parsed output has that name as
\* a string under needs and the runner under runs-on.
C15_Witness ==
    /\ Rendered
    /\ pipeline \in FieldTrees("github-actions")
    /\ LET jobs == CompiledJobs(yamlLoad(output.yaml))
           second == Slots(ChildrenOf(pipeline))[2]
       IN /\ Len(jobs) = 2
          /\ Get(second.props, "needs") = Str("missing")
          /\ Get(jobs[2].entries, "needs") = Str("missing")
          /\ Get(second.props, "runsOn").t = "array"
          /\ Get(jobs[2].entries, "runs-on") = Get(second.props, "runsOn")


\* A Workflow of Jobs was compiled to an object.
C16_Case ==
    /\ CompiledRoot /\ PlatformOf(pipeline) = "github-actions"
    /\ JobsOnly(pipeline)

\* C16: on GitHub Actions, the compiled steps of every Job are the Steps
\* below it whose enabled flag is not false, in their order: a Step with
\* enabled set to false is left out, and no error is raised for it.
C16_DisabledStepsDropped ==
    C16_Case =>
        LET kids == Slots(ChildrenOf(pipeline))
            jobs == CompiledJobs(compiled)
        IN /\ Len(jobs) = Len(kids)
           /\ \A i \in 1..Len(kids) :
                LET kept == SelectSeq(StepLeaves(ChildrenOf(kids[i]), "github-actions"),
                                      LAMBDA leaf : Get(leaf.props, "enabled") # Bool(FALSE))
                IN CompiledSteps(jobs[i]) = [j \in 1..Len(kept) |-> Obj(kept[j].props)]

\* A Job of three Steps, the second with enabled set to false, was compiled
\* and written: the job has three steps, and the second is written with
\* enabled: false.
C16_Witness ==
    /\ C16_Case /\ output.t = "text"
    /\ LET steps == StepLeaves(ChildrenOf(Slots(ChildrenOf(pipeline))[1]), "github-actions")
           written == ListOf(CompiledJobs(yamlLoad(output.yaml))[1], "steps")
       IN /\ Len(steps) = 3
          /\ ~HasKey(steps[1].props, "enabled")
          /\ Get(steps[2].props, "enabled") = Bool(FALSE)
          /\ Get(steps[3].props, "enabled") = Bool(TRUE)
          /\ Len(written) = 3
          /\ Get(written[2].entries, "enabled") = Bool(FALSE)


\* A Workflow with children was given to renderPipeline, and nothing threw.
C17_Case ==
    /\ pc = "rendered" /\ IsRoot(pipeline) /\ PlatformOf(pipeline) = "github-actions"
    /\ Truthy(ChildrenOf(pipeline)) /\ ~IsThrow(output)

\* The children of the Workflow that are Jobs (or components returning one).
WorkflowJobs(root) ==
    SelectSeq(Slots(ChildrenOf(root)), LAMBDA slot : UnitType(slot) = GhJob)

\* The last Job of the sequence that is compiled under the key k.
LastWithId(jobs, k) ==
    jobs[CHOOSE i \in 1..Len(jobs) :
            /\ GitHubActions_jobId(jobs[i].props) = k
            /\ \A j \in (i + 1)..Len(jobs) : GitHubActions_jobId(jobs[j].props) # k]

\* C17: on GitHub Actions, a Workflow with children none of which is a Job
\* compiles to null, and renderPipeline returns null; otherwise the compiled
\* jobs are those of its Job children and nothing else: the keys of the jobs
\* map are the ids of the Job children, each job holds the Steps below its
\* Job, and the compiled Workflow has no other bucket.
C17_OnlyJobChildrenRecognized ==
    C17_Case =>
        LET jobs == WorkflowJobs(pipeline)
        IN IF jobs = <<>>
           THEN compiled = Null /\ output = Null
           ELSE /\ compiled.t = "object"
                /\ Range(Keys(compiled.entries))
                     \subseteq FieldsOf(pipeline) \cup {"jobs"}
                /\ Get(compiled.entries, "jobs").t = "object"
                /\ LET map == Get(compiled.entries, "jobs").entries
                   IN /\ Range(Keys(map))
                            = {GitHubActions_jobId(jobs[i].props) : i \in 1..Len(jobs)}
                      /\ \A k \in Range(Keys(map)) :
                            LET leaves == StepLeaves(ChildrenOf(LastWithId(jobs, k)),
                                                     "github-actions")
                            IN CompiledSteps(Get(map, k))
                                 = [j \in 1..Len(leaves) |-> Obj(leaves[j].props)]

\* A Workflow whose only child is a Step was given to renderPipeline: it was
\* compiled to null and renderPipeline returned null.
C17_Witness ==
    /\ C17_Case
    /\ Len(Slots(ChildrenOf(pipeline))) = 1
    /\ Slots(ChildrenOf(pipeline))[1].type = GhStep
    /\ compiled = Null /\ output = Null


\* A Pipeline with child elements, none of them a Stage, a Job or a Step (or
\* a component returning one), was given to renderPipeline, and nothing threw.
C18_Case ==
    /\ pc = "rendered" /\ IsRoot(pipeline) /\ PlatformOf(pipeline) = "azure-devops"
    /\ Len(Slots(ChildrenOf(pipeline))) > 0
    /\ \A i \in 1..Len(Slots(ChildrenOf(pipeline))) :
          UnitType(Slots(ChildrenOf(pipeline))[i]) \notin {AzStage, AzJob, AzStep}
    /\ ~IsThrow(output)

\* C18: on Azure DevOps, a Pipeline with children of which none is a Stage, a
\* Job or a Step compiles to an object (not null) holding the Pipeline's
\* trigger, pool and variables and an empty stages list and nothing else,
\* and renderPipeline returns text for it, in which stages is the empty list.
C18_NoUnitGivesEmptyStages ==
    C18_Case =>
        /\ compiled = Obj(<< <<"trigger", Get(pipeline.props, "trigger")>>,
                             <<"pool", Get(pipeline.props, "pool")>>,
                             <<"variables", Get(pipeline.props, "variables")>>,
                             <<"stages", Arr(<<>>)>> >>)
        /\ output.t = "text"
        /\ Get(yamlLoad(output.yaml).entries, "stages") = Arr(<<>>)
        /\ Range(Keys(yamlLoad(output.yaml).entries))
             = {k \in {"trigger", "pool", "variables"} : HasKey(pipeline.props, k)}
               \cup {"stages"}

\* A Pipeline with a trigger, a pool and variables, whose only child is a
\* component that returns nothing, was rendered to text with those three and
\* stages: [].
C18_Witness ==
    /\ C18_Case
    /\ Len(Slots(ChildrenOf(pipeline))) = 1
    /\ Slots(ChildrenOf(pipeline))[1].type = Nothing
    /\ Get(pipeline.props, "pool") = Str("Default")
    /\ output.t = "text"
    /\ yamlLoad(output.yaml)
         = Obj(<< <<"trigger", Str("none")>>,
                  <<"pool", Str("Default")>>,
                  <<"variables", Obj(<< <<"CI", Bool(TRUE)>> >>)>>,
                  <<"stages", Arr(<<>>)>> >>)


\* The tree without its empty child slots: a node whose slots were all empty
\* has no children.
IsEmptySlot(v) == v \in EmptySlots

RECURSIVE WithoutEmptySlots(_)
RECURSIVE WithoutEmptyItems(_)
WithoutEmptyItems(items) ==
    IF items = <<>> THEN <<>>
    ELSE IF IsEmptySlot(Head(items)) \/ WithoutEmptySlots(Head(items)) = Arr(<<>>)
    THEN WithoutEmptyItems(Tail(items))
    ELSE <<WithoutEmptySlots(Head(items))>> \o WithoutEmptyItems(Tail(items))

WithoutEmptySlots(v) ==
    IF v.t = "array" THEN Arr(WithoutEmptyItems(v.items))
    ELSE IF v.t = "element" /\ HasKey(v.props, "children")
    THEN LET children == ChildrenOf(v)
         IN Element(v.type,
                    Rest(v.props, "children")
                    \o Kids(IF children.t = "array" THEN WithoutEmptyItems(children.items)
                            ELSE WithoutEmptyItems(<<children>>)))
    ELSE v

\* A child slot of the Root, of a Stage, of a Job or of a Fragment is empty.
RECURSIVE HasEmptySlot(_)
HasEmptySlot(v) ==
    IF v.t = "array" THEN \E i \in 1..Len(v.items) : HasEmptySlot(v.items[i])
    ELSE IF v.t = "element" /\ HasKey(v.props, "children")
    THEN LET children == ChildrenOf(v)
         IN \/ IsEmptySlot(children)
            \/ children.t = "array" /\ \E i \in 1..Len(children.items) :
                                          IsEmptySlot(children.items[i])
            \/ HasEmptySlot(children)
    ELSE FALSE

\* C19: on both platforms, renderPipeline of a Root gives what it gives for
\* the same tree without its empty child slots (false, null, undefined, empty
\* array), the compiled object and the returned text or error alike; a Root
\* whose child slots are all empty gives null, like a Root without children.
C19_EmptySlotsNeutral ==
    (pc = "rendered" /\ IsRoot(pipeline) /\ HasEmptySlot(pipeline)) =>
        Bind(renderPipeline(WithoutEmptySlots(pipeline)), LAMBDA without :
            /\ output = without.output
            /\ compiled = without.compiled)

\* A Pipeline whose two child slots are false and null was rendered: not to
\* null but to text with stages: [].
C19_Witness ==
    /\ pc = "rendered" /\ IsRoot(pipeline) /\ PlatformOf(pipeline) = "azure-devops"
    /\ ChildrenOf(pipeline) = Arr(<<Bool(FALSE), Null>>)
    /\ renderPipeline(WithoutEmptySlots(pipeline)).output = Null
    /\ output.t = "text"
    /\ Get(yamlLoad(output.yaml).entries, "stages") = Arr(<<>>)


\* A Workflow of Jobs with different ids was rendered to text.
C20_Case ==
    /\ Rendered /\ PlatformOf(pipeline) = "github-actions"
    /\ JobsOnly(pipeline)

\* C20: on GitHub Actions, the jobs map of the parsed output has one entry
\* for every Job of the Workflow, and the entry of a Job that declares an id
\* is under a key equal to that id and holds the Job's steps, whatever the id
\* (ids spelled like a renamed property, such as runsOn, among them).
C20_JobsUnderTheirIds ==
    C20_Case =>
        LET kids == Slots(ChildrenOf(pipeline))
            jobs == Get(yamlLoad(output.yaml).entries, "jobs")
        IN /\ jobs.t = "object"
           /\ Len(jobs.entries) = Len(kids)
           /\ \A i \in 1..Len(kids) :
                Get(kids[i].props, "id").t = "string" =>
                    /\ HasKey(jobs.entries, Get(kids[i].props, "id").s)
                    /\ JobAligned(kids[i], Get(jobs.entries, Get(kids[i].props, "id").s))

\* A Workflow of the Jobs runsOn and build, build needing runsOn, was
\* rendered: the keys of the jobs map are runs-on and build, and build needs
\* runsOn.
C20_Witness ==
    /\ C20_Case
    /\ NamesOf(Slots(ChildrenOf(pipeline)), "id") = <<Str("runsOn"), Str("build")>>
    /\ LET jobs == Get(yamlLoad(output.yaml).entries, "jobs")
       IN /\ Keys(jobs.entries) = <<"runs-on", "build">>
          /\ Get(Get(jobs.entries, "build").entries, "needs") = Str("runsOn")


\* The names of the compiled steps of m are those of the Steps below job that
\* are compiled, in document order.
StepsInOrder(job, m, P) ==
    BucketNames(m, "steps", LabelKey(StepOf(P)))
        = NamesOf(CompiledLeaves(Element(JobOf(P), job.props)), LabelKey(StepOf(P)))

\* The compiled jobs ms are those of the Jobs, one for one in their order, by
\* name (on Azure DevOps) and by their steps.
JobsInOrder(jobs, ms, P) ==
    /\ Len(ms) = Len(jobs)
    /\ \A i \in 1..Len(jobs) :
          /\ ms[i].t = "object"
          /\ P = "azure-devops" => Get(ms[i].entries, "job") = Get(jobs[i].props, "job")
          /\ StepsInOrder(jobs[i], ms[i], P)

\* A Root was compiled to an object.
C21_Case == CompiledRoot

\* C21: the compiled document keeps the order of declaration at every level.
\* On Azure DevOps the stages are the Root's Stages in their order, the jobs
\* of each Stage (or of the Root) are its Jobs in their order, and the steps
\* of each Job (or of the Root) are its Steps in their order.  On GitHub
\* Actions the jobs map has one entry for each of the Workflow's N Jobs, N
\* entries in the order of the Jobs, each with the Job's steps in their order.
C21_ChildOrderPreserved ==
    C21_Case =>
        LET P == PlatformOf(pipeline)
            stages == UnitsOf(pipeline, AzStage)
            jobs == UnitsOf(pipeline, JobOf(P))
            steps == UnitsOf(pipeline, AzStep)
        IN IF P = "github-actions"
           THEN /\ Get(compiled.entries, "jobs").t = "object"
                /\ Keys(Get(compiled.entries, "jobs").entries)
                     = [i \in 1..Len(jobs) |-> GitHubActions_jobId(jobs[i].props)]
                /\ JobsInOrder(jobs, CompiledJobs(compiled), P)
           ELSE IF stages # <<>>
           THEN /\ BucketNames(compiled, "stages", "stage") = NamesOf(stages, "stage")
                /\ \A i \in 1..Len(stages) :
                      JobsInOrder(SelectSeq(Slots(ChildrenOf(stages[i])),
                                            LAMBDA k : UnitType(k) = AzJob),
                                  ListOf(ListOf(compiled, "stages")[i], "jobs"), P)
           ELSE IF jobs # <<>>
           THEN JobsInOrder(jobs, ListOf(compiled, "jobs"), P)
           ELSE steps # <<>> =>
                    BucketNames(compiled, "steps", "displayName")
                        = EnabledNames(steps, "displayName")

\* A Workflow of two Jobs, declared with the ids 7 and 3 in that order, was
\* compiled: the jobs map has the key 3 before the key 7.
C21_Witness ==
    /\ C21_Case /\ PlatformOf(pipeline) = "github-actions"
    /\ NamesOf(UnitsOf(pipeline, GhJob), "id") = <<Str("7"), Str("3")>>
    /\ Keys(Get(compiled.entries, "jobs").entries) = <<"3", "7">>
    /\ output.t = "text"
    /\ Keys(Get(yamlLoad(output.yaml).entries, "jobs").entries) = <<"3", "7">>


-----------------------------------------------------------------------------
(* Objects with identity: SpecHeap *)

\* The objects of the input: those of the tree, and the array renderers.
InputObjects == Reach(heap, pipeline) \cup {RenderersAt}

\* C22: compilation never changes its input.  Every call of compilePipeline
\* and of renderPipeline (whether it returns text, null or throws) leaves
\* every node of the tree with the kind, the props and the children it had,
\* every object its props hold as it was, and the array renderers holding
\* what it held.
C22_InputNotMutated ==
    [][pc' = "heap" =>
        /\ pipeline' = pipeline
        /\ \A a \in InputObjects : heap'[a] = heap[a]]_vars

\* renderPipeline has returned text and compilePipeline has returned twice,
\* each having built its objects on the heap.
C22_Witness ==
    /\ pc = "heap"
    /\ output.t = "text"
    /\ Len(documents) = MaxCompilations
    /\ \A i \in 1..Len(documents) : documents[i].t = "ref"
    /\ \E tree \in HeapTrees(getRenderer(pipeline).s) :
        pipeline = tree.root /\ Len(heap) > Len(tree.heap)

\* C23: the compiled document shares no object with the tree nor with the
\* document of another call.
C23_DocumentIndependent ==
    \A i \in 1..Len(documents) :
        /\ Reach(heap, documents[i]) \cap Reach(heap, pipeline) = {}
        /\ \A j \in 1..Len(documents) :
            i # j => Reach(heap, documents[i]) \cap Reach(heap, documents[j]) = {}

\* The caller changed a compiled document, and a node of the tree is no
\* longer what it was.
C23_Witness ==
    /\ pc = "changed"
    /\ \E a \in Reach(heap, pipeline) : \E i \in 1..Len(heap[a].entries) :
        heap[a].entries[i][2] = Str("changed")


-----------------------------------------------------------------------------
(* The command line tool: SpecCli *)

\* What a matched file holds, read off the file.
HasTree(file) == ~IsThrow(file.module) /\ file.module.default.t = "function"
TextOf(file) == renderPipeline(file.module.default.returns).output
RendersNull(file) == HasTree(file) /\ TextOf(file) = Null
CompilationThrows(file) == HasTree(file) /\ IsThrow(TextOf(file))
RendersText(file) == HasTree(file) /\ TextOf(file).t = "text"
FileThrows(file) ==
    \/ IsThrow(file.module)
    \/ CompilationThrows(file)
    \/ RendersText(file) /\ ~file.writable
NoDefaultFunction(file) == ~IsThrow(file.module) /\ file.module.default.t # "function"

Exited == pc = "exited"
ReportedAt(i) == \E k \in 1..Len(stderr) : Len(stderr[k]) >= 2 /\ stderr[k][2] = i
WrittenAt(i) == \E k \in 1..Len(outputFiles) : outputFiles[k][1] = i

\* C24: the process ends with a non-zero exit code and a diagnostic on
\* standard error when no file matched, and whenever the tree of a matched
\* file renders to null or its compilation throws.
C24_FailureExitsNonZero ==
    (/\ Exited
     /\ \/ matchedFiles = <<>>
        \/ \E i \in 1..Len(matchedFiles) :
            RendersNull(matchedFiles[i]) \/ CompilationThrows(matchedFiles[i]))
    => exitCode # Num(0) /\ stderr # <<>>

\* The compilation of a matched file's tree threw, the error was reported on
\* standard error, and the process ended with exit code 0.
C24_Witness ==
    /\ Exited
    /\ exitCode = Num(0)
    /\ \E i \in 1..Len(matchedFiles) :
        /\ CompilationThrows(matchedFiles[i])
        /\ \E k \in 1..Len(stderr) :
            stderr[k] = <<"Error processing", i, TextOf(matchedFiles[i])>>

\* C26: the files are processed one after another in matched order.  Of the
\* files the loop has been through, those whose load, compilation or write
\* threw are reported and not written, those without a default function are
\* neither reported nor written, the others are written, in matched order;
\* none of them rendered to null.  The loop stops early only at a file that
\* renders to null, with exit code 1, so that no later file is written and
\* the earlier ones are; otherwise it goes through every file and the
\* process ends with exit code 0.
C26_BatchPolicy ==
    (pc \in {"loop", "exited"} /\ matchedFiles # <<>>) =>
        /\ at \in 1..Len(matchedFiles) + 1
        /\ \A i \in 1..Len(matchedFiles) :
            LET file == matchedFiles[i]
            IN IF i < at
               THEN /\ ~RendersNull(file)
                    /\ FileThrows(file) => ReportedAt(i) /\ ~WrittenAt(i)
                    /\ NoDefaultFunction(file) => ~ReportedAt(i) /\ ~WrittenAt(i)
                    /\ RendersText(file) /\ file.writable => WrittenAt(i) /\ ~ReportedAt(i)
               ELSE /\ ~WrittenAt(i)
                    /\ ReportedAt(i) => Exited /\ i = at
        /\ \A k \in 1..Len(outputFiles) - 1 : outputFiles[k][1] < outputFiles[k + 1][1]
        /\ \A k \in 1..Len(stderr) - 1 : stderr[k][2] < stderr[k + 1][2]
        /\ Exited =>
            IF at <= Len(matchedFiles)
            THEN /\ RendersNull(matchedFiles[at])
                 /\ exitCode = Num(1)
                 /\ stderr[Len(stderr)] = <<"Failed to render pipeline from", at>>
            ELSE exitCode = Num(0)

\* Four files: the first is written, the compilation of the second throws,
\* the third renders to null and the fourth would render.  The process has
\* ended with code 1 at the third: the first is written, the second and the
\* third are reported, the fourth is not written.
C26_Witness ==
    /\ Exited
    /\ Len(matchedFiles) = 4
    /\ RendersText(matchedFiles[1]) /\ matchedFiles[1].writable
    /\ CompilationThrows(matchedFiles[2])
    /\ RendersNull(matchedFiles[3])
    /\ RendersText(matchedFiles[4]) /\ matchedFiles[4].writable
    /\ at = 3
    /\ exitCode = Num(1)
    /\ Len(outputFiles) = 1 /\ outputFiles[1][1] = 1
    /\ Len(stderr) = 2 /\ stderr[1][2] = 2 /\ stderr[2][2] = 3


-----------------------------------------------------------------------------
(* Expansion on its own: SpecExpand *)

\* The elements of a list of children, in order, those in nested arrays
\* included.
RECURSIVE ElementsOf(_)
ElementsOf(children) ==
    CASE children.t = "array" ->
            IF children.items = <<>> THEN <<>>
            ELSE ElementsOf(Head(children.items)) \o ElementsOf(Arr(Tail(children.items)))
      [] children.t = "element" -> <<children>>
      [] OTHER -> <<>>

NoFragment(children) == \A i \in 1..Len(ElementsOf(children)) :
                            ElementsOf(children)[i].type # Fragment

\* C25: expansion is idempotent.  resolveElement returns a primitive of the
\* platform as it is; flattenChildren of a list without a Fragment returns
\* the nodes of the list, in their order; and flattening what flattenChildren
\* returned gives the same list again.
C25_ExpansionIdempotent ==
    /\ (returned # None /\ isPrimitiveComponent(chosen.s, argument.type))
            => returned = argument
    /\ (flattened # None /\ NoFragment(childList))
            => flattened.items = ElementsOf(childList)
    /\ flattenedAgain # None => flattenedAgain = flattened

\* A list of two primitives without a Fragment has been flattened twice and
\* its first element resolved.
C25_Witness ==
    /\ childList.t = "array"
    /\ Len(childList.items) = 2
    /\ NoFragment(childList)
    /\ flattenedAgain # None
    /\ Len(flattened.items) >= 2
    /\ returned # None
    /\ isPrimitiveComponent(chosen.s, argument.type)


\* The key a Job is to have in the jobs map: its id, or job without one.
JobKey(job) ==
    LET props == IF job.type = Make THEN Rest(job.props, "as") ELSE job.props
    IN IF ~HasKey(props, "id") \/ Get(props, "id") = Str("") THEN "job"
       ELSE PropertyKey(Get(props, "id"))

\* The last Job of the sequence whose key is k.
LastWithKey(jobs, k) ==
    jobs[CHOOSE i \in 1..Len(jobs) :
            JobKey(jobs[i]) = k /\ \A j \in (i + 1)..Len(jobs) : JobKey(jobs[j]) # k]

\* A Workflow with Jobs among its children was compiled.
C27_Case == C17_Case /\ WorkflowJobs(pipeline) # <<>> /\ compiled.t = "object"

\* C27: on GitHub Actions, the key of a Job in the jobs map is its id, or job
\* when the id is missing or empty; the map has one entry for every different
\* key, and the entry of a key that several Jobs have is the compilation of
\* the last of them: its name, and its steps.
C27_JobsMapKeys ==
    C27_Case =>
        LET jobs == WorkflowJobs(pipeline)
            map == Get(compiled.entries, "jobs").entries
            keys == {JobKey(jobs[i]) : i \in 1..Len(jobs)}
        IN /\ Range(Keys(map)) = keys
           /\ Len(map) = Cardinality(keys)
           /\ \A k \in keys :
                LET last == LastWithKey(jobs, k)
                    unit == IF last.type = Make
                            THEN Element(GhJob, Rest(last.props, "as")) ELSE last
                IN /\ Get(Get(map, k).entries, "name") = Get(unit.props, "name")
                   /\ CompiledSteps(Get(map, k))
                        = [j \in 1..Len(CompiledLeaves(unit)) |->
                                Obj(CompiledLeaves(unit)[j].props)]

\* Two Jobs, the first with an empty id and the second without one, were
\* compiled: the jobs map has the one key job, and its entry is the second
\* Job's.
C27_Witness ==
    /\ C27_Case
    /\ LET jobs == WorkflowJobs(pipeline)
           map == Get(compiled.entries, "jobs").entries
       IN /\ Len(jobs) = 2
          /\ Get(jobs[1].props, "id") = Str("")
          /\ ~HasKey(jobs[2].props, "id")
          /\ Keys(map) = <<"job">>
          /\ Get(map[1][2].entries, "name") = Get(jobs[2].props, "name")
          /\ Get(map[1][2].entries, "name") # Get(jobs[1].props, "name")


-----------------------------------------------------------------------------
(* Key renaming wherever a map is: SpecConvert *)

\* The entries of a map that have a value.
Given(entries) == SelectSeq(entries, LAMBDA e : e[2].t # "undefined")

\* The entry of a map that is the last one written under the wire key w.
LastUnder(entries, w) ==
    Given(entries)[CHOOSE i \in 1..Len(Given(entries)) :
                       /\ WireSpelling(Given(entries)[i][1]) = w
                       /\ \A j \in (i + 1)..Len(Given(entries)) :
                            WireSpelling(Given(entries)[j][1]) # w]

\* Every map of a, at any depth, with the key it is under and the map that b
\* has in its place.
RECURSIVE MapPairs(_, _, _)
MapPairs(a, b, under) ==
    IF a.t = "object" /\ b.t = "object"
    THEN {<<under, a, b>>}
         \cup UNION {MapPairs(LastUnder(a.entries, b.entries[i][1])[2], b.entries[i][2],
                              LastUnder(a.entries, b.entries[i][1])[1])
                        : i \in {j \in 1..Len(b.entries) :
                                    \E e \in Range(Given(a.entries)) :
                                        WireSpelling(e[1]) = b.entries[j][1]}}
    ELSE IF a.t = "array" /\ b.t = "array" /\ Len(a.items) = Len(b.items)
    THEN UNION {MapPairs(a.items[i], b.items[i], under) : i \in 1..Len(a.items)}
    ELSE {}

-----------------------------------------------------------------------------
(* Elements that are not Steps, inside a Job *)

\* The elements below v that are neither a Step, a fragment nor a
\* user-defined component: primitives of either platform and host elements.
RECURSIVE NestedUnits(_)
NestedUnits(v) ==
    IF v.t = "array" THEN UNION {NestedUnits(v.items[i]) : i \in 1..Len(v.items)}
    ELSE IF v.t # "element" THEN {}
    ELSE (IF v.type \in UserComponents \cup {Fragment, AzStep, GhStep} THEN {} ELSE {v})
         \cup NestedUnits(ChildrenOf(v))

\* The Steps of platform P below v, every other element replaced by its
\* children, in document order.
RECURSIVE Spliced(_, _)
Spliced(v, P) ==
    IF v.t = "array"
    THEN IF v.items = <<>> THEN <<>>
         ELSE Spliced(Head(v.items), P) \o Spliced(Arr(Tail(v.items)), P)
    ELSE IF v.t # "element" THEN <<>>
    ELSE IF v.type = StepOf(P) THEN <<v>>
    ELSE IF v.type \in {AzStep, GhStep} THEN <<>>
    ELSE Spliced(ChildrenOf(v), P)

\* The scalar s is somewhere in the value v.
RECURSIVE Mentions(_, _)
Mentions(v, s) ==
    CASE v.t = "object" -> \E i \in 1..Len(v.entries) : Mentions(v.entries[i][2], s)
      [] v.t = "array" -> \E i \in 1..Len(v.items) : Mentions(v.items[i], s)
      [] OTHER -> v = s

\* A Root of one Job that has, among its children, elements that are neither
\* Steps, fragments nor components, was compiled.
C29_Case ==
    /\ CompiledRoot
    /\ LET kids == Slots(ChildrenOf(pipeline))
       IN /\ Len(kids) = 1
          /\ kids[1].type = JobOf(PlatformOf(pipeline))
          /\ NestedUnits(ChildrenOf(kids[1])) # {}
          /\ \A u \in NestedUnits(ChildrenOf(kids[1])) :
                Get(u.props, "condition") = Str("inner")

\* C29: on both platforms an element inside a Job that is not a Step (a Job,
\* a Stage or a Root of either platform, a host element) is transparent: the
\* document has the one job, the job has no bucket but steps, nothing of the
\* element's own properties is in the document, and the job's steps are the
\* Steps below the Job in document order, those below the element in its
\* place.
C29_NonStepsTransparent ==
    C29_Case =>
        LET P == PlatformOf(pipeline)
            job == Slots(ChildrenOf(pipeline))[1]
            leaves == Spliced(ChildrenOf(job), P)
        IN /\ Len(CompiledJobs(compiled)) = 1
           /\ Range(Keys(CompiledJobs(compiled)[1].entries)) \subseteq FieldsOf(job) \cup {"steps"}
           /\ ~Mentions(compiled, Str("inner"))
           /\ CompiledNames(CompiledSteps(CompiledJobs(compiled)[1]), LabelKey(StepOf(P)))
                = NamesOf(leaves, LabelKey(StepOf(P)))
           /\ \A i \in 1..Len(leaves) :
                Range(Keys(CompiledSteps(CompiledJobs(compiled)[1])[i].entries))
                    = Range(Keys(leaves[i].props))

\* A Job with a Step, a Stage holding a Job that holds a Step and then a
\* Step, and a Step: the compiled job has the four steps, in that order.
C29_Witness ==
    /\ C29_Case
    /\ PlatformOf(pipeline) = "azure-devops"
    /\ LET kids == Slots(ChildrenOf(Slots(ChildrenOf(pipeline))[1]))
       IN /\ Len(kids) = 3
          /\ kids[2].type = AzStage
          /\ Slots(ChildrenOf(kids[2]))[1].type = AzJob
    /\ CompiledNames(CompiledSteps(CompiledJobs(compiled)[1]), "displayName")
         = <<Str("n2"), Str("n5"), Str("n6"), Str("n7")>>


-----------------------------------------------------------------------------
(* The compiled Step *)

\* The Steps of the tree that are compiled, each with its compiled step.
StepPairs(root, doc) == {p \in PairsOf(root, doc) : p[1].type \in {AzStep, GhStep}}

\* C30: a compiled Step is the Step's whole property bag: on GitHub Actions
\* the entries of the bag, each under its key with its value and in the
\* order of the bag; on Azure DevOps the same without the entry enabled,
\* which no compiled step has.  Nothing is added, renamed or left out.
C30_StepIsItsBag ==
    CompiledRoot =>
        \A p \in StepPairs(pipeline, compiled) :
            /\ p[2].t = "object"
            /\ p[2].entries =
                IF p[1].type = AzStep
                THEN SelectSeq(p[1].props, LAMBDA e : e[1] # "enabled")
                ELSE p[1].props
            /\ p[1].type = AzStep => ~HasKey(p[2].entries, "enabled")

\* An Azure DevOps Step with enabled true and other properties was compiled:
\* the compiled step has the other properties and not enabled.
C30_Witness ==
    /\ CompiledRoot
    /\ \E p \in StepPairs(pipeline, compiled) :
        /\ p[1].type = AzStep
        /\ Get(p[1].props, "enabled") = Bool(TRUE)
        /\ Len(p[1].props) >= 3
        /\ Len(p[2].entries) = Len(p[1].props) - 1
        /\ ~HasKey(p[2].entries, "enabled")

=============================================================================
